---- MODULE Spec2Model ----
(***************************************************************************)
(* Session-cached aggregation core of the Myfxbook backend                *)
(* (src/src/myfxbook/myfxbook.service.ts, src/src/cache/cache.module.ts). *)
(*                                                                         *)
(* Every asynchronous function invocation is a task; a task takes one     *)
(* step per completed await (cache get/set/del, upstream HTTP call, join  *)
(* of the promises it started).  Logical requests are the root tasks.     *)
(***************************************************************************)
EXTENDS Integers, Sequences, FiniteSets, TLC

\* ------------------------------------------------------------------ bounds
MaxRequests == 2      \* logical requests started in one behaviour
MaxInflight == 1      \* logical requests in flight at the same time
MaxFaults == 2        \* upstream calls (login included) that do not succeed
MaxLogins == 3        \* successful logins (fresh tokens issued by upstream)
MaxExpiries == 1      \* cache entries dropped by their TTL
NumAccounts == 2      \* size of the configured account set
MaxStrLen == 2        \* characters in a cache-key parameter
MaxParams == 2        \* parameters of a cache key
MaxBalance == 3       \* largest balance of a daily record
MaxRecords == 4       \* daily records of one account
MaxTrades == 2        \* history records of one account
MaxDays == 99         \* days after the first day on which "today" may fall
MaxGain == 5          \* largest gain, of either sign, given to calculateDifference
MaxDeltas == 2        \* daily records in one get-data-daily response
MaxProfit == 2        \* largest profit of one daily record
MaxCacheOps == 3      \* calls to CacheService made one after the other
MaxListed == 2        \* accounts in the listing given to getAggregatedAccounts
MaxTogether == 2      \* requests in flight together where requests overlap

\* function invocations alive at the same time: a comparison request, its two
\* period calls and one endpoint call per configured account for each of them
MaxTasks == 5 + 2 * NumAccounts

TaskIds == 1..MaxTasks

\* ----------------------------------------------------------- configuration
\* the configured "EXNESS" account ids, as strings (getExnessAccountIds)
EXNESS_ACCOUNT == [i \in 1..NumAccounts |-> ToString(i)]

getExnessAccountIds == EXNESS_ACCOUNT

\* the fixed key of the backend-managed session
sessionCacheKey == <<"myfxbook:session:default">>

NoTok == 0
\* a token supplied by a caller; tokens issued by login are 1..MaxLogins
ExplicitTok == 100

AccountIds == {"", "default"} \cup {EXNESS_ACCOUNT[i] : i \in 1..NumAccounts}

\* ----------------------------------------------------------------- numbers
Abs(x) == IF x < 0 THEN -x ELSE x

\* a / b rounded to the nearest integer, b > 0
RoundDiv(a, b) == IF a >= 0 THEN (2 * a + b) \div (2 * b) ELSE -((2 * (-a) + b) \div (2 * b))

\* ------------------------------------------------------ dates (Date objects)
\* days from 1970-01-01 to the given day of the proleptic Gregorian calendar;
\* month is 1..12, day may lie outside the month
DaysFromCivil(year, month, day) ==
    LET y == IF month <= 2 THEN year - 1 ELSE year
        era == y \div 400
        yoe == y - era * 400
        mp == IF month > 2 THEN month - 3 ELSE month + 9
        doy == (153 * mp + 2) \div 5 + day - 1
        doe == yoe * 365 + yoe \div 4 - yoe \div 100 + doy
    IN era * 146097 + doe - 719468

\* the calendar day that lies z days after 1970-01-01; month is 0..11 as in
\* getMonth()
CivilFromDays(z) ==
    LET zz == z + 719468
        era == zz \div 146097
        doe == zz - era * 146097
        yoe == (doe - doe \div 1460 + doe \div 36524 - doe \div 146096) \div 365
        doy == doe - (365 * yoe + yoe \div 4 - yoe \div 100)
        mp == (5 * doy + 2) \div 153
        m == IF mp < 10 THEN mp + 3 ELSE mp - 9
    IN [year |-> yoe + era * 400 + (IF m <= 2 THEN 1 ELSE 0),
        month |-> m - 1,
        date |-> doy - (153 * mp + 2) \div 5 + 1]

\* new Date(year, monthIndex, day) at local midnight: a month index or a day
\* outside its range rolls over into the neighbouring months
DayNumber(year, monthIndex, day) ==
    DaysFromCivil(year + monthIndex \div 12, (monthIndex % 12) + 1, 1) + day - 1

NewDate(year, monthIndex, day) == CivilFromDays(DayNumber(year, monthIndex, day))

\* Date.prototype.getDay: 0 is Sunday (1970-01-01 was a Thursday)
getDay(d) == (DayNumber(d.year, d.month, d.date) + 4) % 7

\* Date.prototype.setDate
setDate(d, dayOfMonth) == NewDate(d.year, d.month, dayOfMonth)

\* a time string "MM/DD/YYYY HH:mm" as parseDate takes it apart:
\*   present  the field is there and not empty
\*   hasTime  there is a part after the blank
\*   nan      one of the five numbers does not parse
Stamp(present, hasTime, nan, month, day, year, hours, minutes) ==
    [present |-> present, hasTime |-> hasTime, nan |-> nan,
     month |-> month, day |-> day, year |-> year, hours |-> hours, minutes |-> minutes]

TimeString(month, day, year, hours, minutes) ==
    Stamp(TRUE, TRUE, FALSE, month, day, year, hours, minutes)

\* ------------------------------------------------------------------ errors
\* An error as the code inspects it: message, axios response body and status.
\*   tag        which throw site produced it
\*   code       HTTP status carried by an HttpException (0: not an HttpException)
\*   msgPat     error.message contains one of the session patterns
\*   respErr    error.response.data.error is set
\*   respMsgPat error.response.data.message contains one of the patterns
\*   status     error.response.status
Err(tag, code, msgPat, respErr, respMsgPat, status) ==
    [tag |-> tag, code |-> code, msgPat |-> msgPat, respErr |-> respErr,
     respMsgPat |-> respMsgPat, status |-> status]

NoErr == Err("none", 0, FALSE, FALSE, FALSE, 0)

\* what the HTTP client can throw on an endpoint call
AxiosNetwork == Err("axios", 0, FALSE, FALSE, FALSE, 0)
Axios401 == Err("axios", 0, FALSE, FALSE, FALSE, 401)
AxiosThrown == {AxiosNetwork, Axios401}

isSessionExpiredError(error) ==
    /\ error.tag /= "none"
    /\ \/ error.msgPat
       \/ error.respErr /\ error.respMsgPat
       \/ error.status = 401

\* HttpException thrown by login when upstream rejects the credentials:
\* "Myfxbook authentication failed: ..." contains the pattern "authentication failed"
LoginRejected == Err("authFailed", 401, TRUE, FALSE, FALSE, 0)
\* HttpException thrown by login on a transport error:
\* "Failed to authenticate with Myfxbook: ..."
LoginUnreachable == Err("loginFailed", 500, FALSE, FALSE, FALSE, 0)
LoginErrors == {LoginRejected, LoginUnreachable}

\* HttpException of makeAuthenticatedRequest's catch block; the message embeds
\* the message of the error it wraps
ApiRequestFailed(error) == Err("apiRequestFailed", 500, error.msgPat, FALSE, FALSE, 0)

AccountIdRequired == Err("accountIdRequired", 400, FALSE, FALSE, FALSE, 0)
\* 'Start date and end date are required'
DatesRequired == Err("datesRequired", 400, FALSE, FALSE, FALSE, 0)
\* 'Failed to get daily data comparisons: ' followed by the message of the error caught
DailyComparisonsFailed(error) == Err("dailyComparisonsFailed", 500, error.msgPat, FALSE, FALSE, 0)
\* "Failed to fetch ...: <upstream message>" (BAD_REQUEST)
FetchFailed(resp) == Err("fetchFailed", 400, resp.expired, FALSE, FALSE, 0)

\* --------------------------------------------------------------- responses
\* The body of an upstream response, reduced to what the code reads.
Resp(error, expired, history, gain) ==
    [error |-> error, expired |-> expired, history |-> history, gain |-> gain,
     accounts |-> <<>>, dataDaily |-> <<>>]

NoVal == [none |-> TRUE]

\* an account id upstream knows and the configuration does not
OtherAccount == "9"

\* an account of a listing, reduced to its id and its name
Account(id, name) == [id |-> id, name |-> name]

\* the accounts upstream lists: the other account first, then the configured ones
UpstreamAccounts ==
    [i \in 1..(NumAccounts + 1) |->
        Account((<<OtherAccount>> \o EXNESS_ACCOUNT)[i], "upstream")]

\* the synthetic entry appended to every listing
DEFAULT_ACCOUNT == Account("default", "default")

\* the ids whose entry is shown under the low-risk name: the first configured one
LOW_RISK_ACCOUNT == <<EXNESS_ACCOUNT[1]>>

IndexOf(id) == CHOOSE i \in 1..NumAccounts : EXNESS_ACCOUNT[i] = id

\* the trade of account i: opened at midnight, closed i minutes later
TradeOf(id) ==
    [openTime |-> TimeString(3, 1, 2024, 0, 0),
     closeTime |-> TimeString(3, 1, 2024, 0, IndexOf(id))]

\* the daily records of account i: an inner array each, balance i + 1 then i
DailyOf(id) ==
    <<<<[date |-> 1, balance |-> IndexOf(id) + 1, profit |-> IndexOf(id), pips |-> 1]>>,
      <<[date |-> 2, balance |-> IndexOf(id), profit |-> -1, pips |-> IndexOf(id)]>>>>

\* upstream data: account i holds one trade, gain i and two daily records
UpstreamOk(endpoint, id) ==
    IF endpoint = "get-history.json" THEN Resp(FALSE, FALSE, <<TradeOf(id)>>, 0)
    ELSE IF endpoint = "get-gain.json" THEN Resp(FALSE, FALSE, <<>>, IndexOf(id))
    ELSE IF endpoint = "get-data-daily.json"
    THEN [Resp(FALSE, FALSE, <<>>, 0) EXCEPT !.dataDaily = DailyOf(id)]
    ELSE IF endpoint = "get-my-accounts.json"
    THEN [Resp(FALSE, FALSE, <<>>, 0) EXCEPT !.accounts = UpstreamAccounts]
    ELSE Resp(FALSE, FALSE, <<>>, 0)

\* error: true with a message matching a session pattern / another message
UpstreamExpired == Resp(TRUE, TRUE, <<>>, 0)
UpstreamError == Resp(TRUE, FALSE, <<>>, 0)


\* ------------------------------------------------------------------- state
VARIABLES
    store,        \* the cache store: key -> value, for the keys that are present
    enableCache,  \* configuration flag redis.enableCache
    tasks,        \* function invocations in progress
    reqs,         \* the logical requests started so far, with what each did
    issued,       \* tokens issued by upstream so far
    faults,       \* upstream calls that did not succeed so far
    expiries,     \* cache entries dropped by their TTL so far
    cacheDown,    \* the underlying store is unreachable: every call to it throws
    fnArgs,       \* the arguments of a function computed on its own
    fnResult      \* what that function returned

vars == <<store, enableCache, tasks, reqs, issued, faults, expiries, cacheDown, fnArgs, fnResult>>

\* one function invocation
Task(fn, rid, parent, slot, endpoint, session, acct, period) ==
    [fn |-> fn, rid |-> rid, parent |-> parent, slot |-> slot,
     pc |-> IF fn \in {"makeAuthenticatedRequest", "logout"} THEN "call" ELSE "resolve",
     status |-> "run",
     endpoint |-> endpoint, session |-> session, acct |-> acct,
     period |-> period,     \* the date window of the call, 0 when it has none
     stage |-> 1,           \* the comparison being computed (getGainComparisons)
     acc |-> <<>>,          \* results of the comparisons computed so far
     tok |-> session,       \* resolvedSession / the token the next call sends
     retry |-> TRUE,        \* retryOnExpiration
     via |-> "none",        \* refresh entered from the try block or the catch block
     val |-> NoVal, err |-> NoErr,
     cval |-> NoVal,        \* the value about to be written to the cache
     hit |-> FALSE,         \* the cache check found a value
     lastOk |-> FALSE,      \* the last endpoint call was answered without error
     retryExpired |-> FALSE,\* the call made after a refresh reported expiry again
     nCalls |-> 0, nLogins |-> 0, nClears |-> 0,  \* of this invocation, recursion included
     okSet |-> {},          \* slots of the fan-out whose call succeeded
     order |-> <<>>]        \* slots of the calls it started, in the order they settled

NoTask == Task("none", 0, 0, 0, "", NoTok, "", 0)

\* one logical request and what it did
Req(op, session, acct, alone, exp0) ==
    [op |-> op, session |-> session, acct |-> acct,
     alone |-> alone,       \* no other request was in flight when it started
     tok |-> NoTok,         \* the session the request was resolved under
     status |-> "run", val |-> NoVal, err |-> NoErr, hit |-> FALSE,
     calls |-> 0, logins |-> 0, refreshes |-> 0,
     loginFails |-> 0,      \* logins of this request that failed
     expirySignals |-> 0,   \* endpoint calls of this request that reported expiry
     otherFails |-> 0,      \* endpoint calls of this request that failed otherwise
     retryExpired |-> FALSE,\* a call made after a refresh reported expiry again
     sessGets |-> 0, sessSets |-> 0, sessDels |-> 0, dataSets |-> 0,
     exp0 |-> exp0, exp1 |-> exp0]

Alive(T, t) == T[t].fn /= "none"
FreeIn(T) == {i \in TaskIds : ~Alive(T, i)}
Min(S) == CHOOSE x \in S : \A y \in S : x <= y
Inflight == Cardinality({t \in TaskIds : Alive(tasks, t) /\ tasks[t].parent = 0})
Kids(T, t) == {c \in TaskIds : Alive(T, c) /\ T[c].parent = t}
KidAt(T, t, i) == CHOOSE c \in Kids(T, t) : T[c].slot = i
\* a caller that goes on only when every call has returned a value
KidsAllReturned(T, t) == Kids(T, t) /= {} /\ \A c \in Kids(T, t) : T[c].status = "ret"

KidsDone(T, t) == Kids(T, t) /= {} /\ \A c \in Kids(T, t) : T[c].status /= "run"
\* the caller goes on: the settled calls are done with, a call still running
\* (Promise.all rejected before it settled) runs on with nobody awaiting it
Detached == -1
DropKids(T, t) ==
    [c \in TaskIds |->
        IF c \notin Kids(T, t) THEN T[c]
        ELSE IF T[c].status = "run" THEN [T[c] EXCEPT !.parent = Detached]
        ELSE NoTask]

RECURSIVE Spawn(_, _)
Spawn(T, news) ==
    IF news = <<>> THEN T
    ELSE Spawn([T EXCEPT ![Min(FreeIn(T))] = Head(news)], Tail(news))

CanSpawn(n) == Cardinality(FreeIn(tasks)) >= n

Bump(R, rid, f) == [R EXCEPT ![rid][f] = @ + 1]

\* The invocation t ends with status st ("ret": returns v, "thr": throws e).
\* A root invocation ends its logical request; any other waits for its caller.
FinishTasks(T, t, st, v, e) ==
    IF T[t].parent <= 0 THEN [T EXCEPT ![t] = NoTask]
    ELSE [T EXCEPT ![t].status = st, ![t].pc = "done", ![t].val = v, ![t].err = e,
                   ![T[t].parent].order = Append(@, T[t].slot)]

FinishReqs(R, T, t, st, v, e) ==
    IF T[t].parent = 0
    THEN [R EXCEPT ![T[t].rid].status = st, ![T[t].rid].val = v, ![T[t].rid].err = e,
                   ![T[t].rid].exp1 = expiries]
    ELSE R

\* ------------------------------------------------------------ CacheService
\* A string is the sequence of its characters; a run of letters and digits may be
\* written as one element.  Every element outside Punctuation is alphanumeric.
Punctuation == {"-", "_", ":"}

isAlphanumeric(c) == c \notin Punctuation

\* String(p).replace(/[^a-zA-Z0-9]/g, '_')
ReplaceNonAlphanumeric(str) ==
    [i \in 1..Len(str) |-> IF isAlphanumeric(str[i]) THEN str[i] ELSE "_"]

\* Array.prototype.join
RECURSIVE join(_, _)
join(strs, sep) ==
    IF strs = <<>> THEN <<>>
    ELSE IF Len(strs) = 1 THEN strs[1]
    ELSE strs[1] \o <<sep>> \o join(Tail(strs), sep)

\* generateKey: `${prefix}:${paramString}`, the prefix taken as it is
generateKeyUnreplaced(prefix, params) == <<prefix, ":">> \o join(params, ":")

generateKey(prefix, params) ==
    LET paramString == join([i \in 1..Len(params) |-> ReplaceNonAlphanumeric(params[i])], ":")
    IN <<prefix, ":">> \o paramString

\* a parameter made of letters and digits only (the empty string has no character)
Str(word) == IF word = "" THEN <<>> ELSE <<word>>

Null == [null |-> TRUE]

\* the number 0, one of the values JavaScript takes for false
Zero == [number |-> 0]
Falsy(value) == value \in {Zero, Null}

CacheHas(key) == key \in DOMAIN store
CachePut(S, key, value) == [k \in DOMAIN S \cup {key} |-> IF k = key THEN value ELSE S[k]]
CacheDrop(S, key) == [k \in DOMAIN S \ {key} |-> S[k]]

\* cacheManager.get: throws when the store is unreachable
cacheManagerGet(S, key) ==
    IF cacheDown THEN [threw |-> TRUE, value |-> Null]
    ELSE [threw |-> FALSE, value |-> IF key \in DOMAIN S THEN S[key] ELSE Null]

\* CacheService.get: the stored value, or null; an error of the store is logged
\* and null is returned
CacheServiceGetMiss(S, key) == [threw |-> FALSE, value |-> Null]

CacheServiceGetRethrow(S, key) == cacheManagerGet(S, key)

CacheServiceGet(S, key) ==
    LET r == cacheManagerGet(S, key) IN
    IF r.threw THEN [threw |-> FALSE, value |-> Null]
    ELSE [threw |-> FALSE, value |-> IF Falsy(r.value) THEN Null ELSE r.value]

\* CacheService.set: an error of the store is logged, nothing is written
CacheServiceSet(S, key, value) == IF cacheDown THEN S ELSE CachePut(S, key, value)

\* CacheService.del: a no-op when the cache is disabled; an error of the store
\* is logged
CacheServiceDel(S, key) ==
    IF ~enableCache THEN S
    ELSE IF cacheDown THEN S ELSE CacheDrop(S, key)

\* CacheService.setPermanent: store without a TTL, failures swallowed like set
setPermanent(S, key, value) == IF cacheDown THEN S ELSE CachePut(S, key, value)

\* an error of the store that reaches the caller of CacheService
CacheFailure == Err("cache", 0, FALSE, FALSE, FALSE, 0)

\* clearCachedSession
clearCachedSession(S) == CacheServiceDel(S, sessionCacheKey)

SessionStored == CacheHas(sessionCacheKey)

\* -------------------------------------------------------- per-operation parts
\* the four comparisons of getGainComparisons: today, week, month, year
NumComparisons == 4

\* String.prototype.toLowerCase on the account ids a caller may send
toLowerCase(word) == IF word = "DEFAULT" THEN "default" ELSE word

isDefaultAccount(accountId) == toLowerCase(accountId) = "default"

validateAccountId(accountId) == IF accountId = "" THEN AccountIdRequired ELSE NoErr

\* the checks an operation makes between resolving the session and reading the cache
Validation(tk) ==
    IF tk.fn \in {"getHistory", "getAverageTradeLength", "getGainComparisons", "getDataDaily",
                  "getPerformanceSummary", "getDailyDataComparisons"}
    THEN validateAccountId(tk.acct)
    ELSE IF tk.fn = "getBalanceProfitability"
    THEN IF validateAccountId(tk.acct) /= NoErr THEN validateAccountId(tk.acct)
         ELSE IF tk.period = 0 THEN DatesRequired ELSE NoErr
    ELSE NoErr

\* the cache key of an operation
KeyOf(tk) ==
    IF tk.fn = "getMyAccounts" THEN generateKey("endpoint:get-my-accounts", <<>>)
    ELSE IF tk.fn = "getHistory"
    THEN generateKey("myfxbook:history", <<Str(ToString(tk.tok)), Str(tk.acct)>>)
    ELSE IF tk.fn = "getAverageTradeLength"
    THEN generateKey("myfxbook:trade-length", <<Str(ToString(tk.tok)), Str(tk.acct)>>)
    ELSE IF tk.fn = "getGainForPeriod"
    THEN generateKey("myfxbook:gain",
                     <<Str(ToString(tk.tok)), Str(tk.acct), Str(ToString(tk.period))>>)
    ELSE IF tk.fn = "getDataDaily"
    THEN generateKey("endpoint:get-data-daily", <<Str(tk.acct), Str(ToString(tk.period))>>)
    ELSE IF tk.fn = "getBalanceProfitability"
    THEN generateKey("myfxbook:profitability",
                     <<Str(ToString(tk.tok)), Str(tk.acct), Str(ToString(tk.period))>>)
    ELSE IF tk.fn = "getPerformanceSummary"
    THEN generateKey("endpoint:get-performance-summary",
                     <<Str(tk.acct), Str(ToString(tk.period))>>)
    ELSE IF tk.fn = "getDailyDataComparisons"
    THEN generateKey("myfxbook:daily-comparisons", <<Str(ToString(tk.tok)), Str(tk.acct)>>)
    ELSE generateKey("myfxbook:gain-comparisons", <<Str(ToString(tk.tok)), Str(tk.acct)>>)

GainResult(gain, period) == [gain |-> gain, period |-> period]

\* what the catch block of an operation makes of an error thrown in its body:
\* getGainForPeriod logs it and returns gain 0, getDailyDataComparisons wraps it
\* in an internal-server error, the others rethrow an HttpException
Catch(tk, e) ==
    IF tk.fn = "getGainForPeriod"
    THEN [st |-> "ret", v |-> GainResult(0, tk.period), e |-> NoErr]
    ELSE IF tk.fn = "getDailyDataComparisons"
    THEN [st |-> "thr", v |-> NoVal, e |-> DailyComparisonsFailed(e)]
    ELSE [st |-> "thr", v |-> NoVal, e |-> e]

Ends(T, R, t, st, v, e) ==
    /\ tasks' = FinishTasks(T, t, st, v, e)
    /\ reqs' = FinishReqs(R, T, t, st, v, e)

Throws(T, R, t, e) ==
    LET c == Catch(T[t], e) IN Ends(T, R, t, c.st, c.v, c.e)

\* with the session resolved (T[t].tok), validate and go on to the cache check
Proceed(T, R, t) ==
    LET R1 == IF T[t].parent = 0 THEN [R EXCEPT ![T[t].rid].tok = T[t].tok] ELSE R IN
    IF Validation(T[t]) /= NoErr
    THEN Throws(T, R1, t, Validation(T[t]))
    ELSE /\ tasks' = [T EXCEPT ![t].pc = "cacheGet"]
         /\ reqs' = R1

IsOp(tk) == tk.fn \notin {"none", "makeAuthenticatedRequest", "logout"}

Request(tk, t, slot, endpoint, id) ==
    Task("makeAuthenticatedRequest", tk.rid, t, slot, endpoint, tk.tok, id, tk.period)

\* one endpoint call per configured account, all started before any is awaited
FanOut(tk, t, endpoint) ==
    [i \in 1..NumAccounts |-> Request(tk, t, i, endpoint, getExnessAccountIds[i])]

\* the calls an operation starts on a cache miss (and getGainComparisons for
\* each comparison), in the order of the array given to Promise.all
Calls(t, tk) ==
    IF tk.fn = "getMyAccounts" THEN <<Request(tk, t, 1, "get-my-accounts.json", "")>>
    ELSE IF tk.fn = "getHistory"
    THEN IF isDefaultAccount(tk.acct) THEN FanOut(tk, t, "get-history.json")
         ELSE <<Request(tk, t, 1, "get-history.json", tk.acct)>>
    ELSE IF tk.fn = "getAverageTradeLength"
    THEN <<Task("getHistory", tk.rid, t, 1, "", tk.tok, tk.acct, 0)>>
    ELSE IF tk.fn = "getGainForPeriod"
    THEN IF isDefaultAccount(tk.acct) THEN FanOut(tk, t, "get-gain.json")
         ELSE <<Request(tk, t, 1, "get-gain.json", tk.acct)>>
    ELSE IF tk.fn = "getDataDaily"
    THEN IF isDefaultAccount(tk.acct) THEN FanOut(tk, t, "get-data-daily.json")
         ELSE <<Request(tk, t, 1, "get-data-daily.json", tk.acct)>>
    ELSE IF tk.fn = "getBalanceProfitability"
    THEN <<Task("getDataDaily", tk.rid, t, 1, "", tk.tok, tk.acct, tk.period)>>
    ELSE IF tk.fn = "getPerformanceSummary"
    THEN <<Task("getBalanceProfitability", tk.rid, t, 1, "", tk.tok, tk.acct, tk.period),
           Task("getAverageTradeLength", tk.rid, t, 2, "", tk.tok, tk.acct, 0)>>
    ELSE IF tk.fn = "getDailyDataComparisons"
    THEN [i \in 1..2 |->
            Task("getDataDaily", tk.rid, t, i, "", tk.tok, tk.acct, 2 * (tk.stage - 1) + i)]
    ELSE [i \in 1..2 |->
            Task("getGainForPeriod", tk.rid, t, i, "", tk.tok, tk.acct,
                 2 * (tk.stage - 1) + i)]

RECURSIVE Concat(_)
Concat(seqs) == IF seqs = <<>> THEN <<>> ELSE Head(seqs) \o Concat(Tail(seqs))

RECURSIVE Sum(_)
Sum(seq) == IF seq = <<>> THEN 0 ELSE Head(seq) + Sum(Tail(seq))

Configured == {EXNESS_ACCOUNT[i] : i \in 1..NumAccounts}

\* the settled calls of t as Promise.all returns them, a call that threw
\* replaced by `fallback` (the value its .catch handler returns)
Settled(T, t, fallback) ==
    [i \in 1..Cardinality(Kids(T, t)) |->
        IF T[KidAt(T, t, i)].status = "thr" THEN fallback ELSE T[KidAt(T, t, i)].val]

\* Array.prototype.includes
Includes(seq, x) == \E i \in 1..Len(seq) : seq[i] = x

\* the entry of a low-risk id gets the low-risk name
lowRiskName(item) ==
    IF Includes(LOW_RISK_ACCOUNT, item.id) THEN [item EXCEPT !.name = "FREQ > LOW RISK"]
    ELSE item

\* getMyAccounts: the configured accounts of the listing are cached; the same
\* accounts followed by the default entry are returned
getMyAccounts(T, t) ==
    LET k == T[KidAt(T, t, 1)]
        filteredAccounts ==
            [accounts |-> SelectSeq(k.val.accounts, LAMBDA item : Includes(EXNESS_ACCOUNT, item.id))]
        withDefault == filteredAccounts.accounts \o <<DEFAULT_ACCOUNT>>
        finalResult == [accounts |-> [i \in 1..Len(withDefault) |-> lowRiskName(withDefault[i])]]
    IN
    IF k.status = "thr" THEN [next |-> "thr", v |-> NoVal, c |-> NoVal, e |-> k.err]
    ELSE IF k.val.error
    THEN [next |-> "thr", v |-> NoVal, c |-> NoVal, e |-> FetchFailed(k.val)]
    ELSE [next |-> "cache", v |-> finalResult, c |-> filteredAccounts, e |-> NoErr]

\* getHistory, "default": every failed call is replaced by an empty result, the
\* arrays are concatenated in the order of the configured ids, and the other
\* fields are those of the first response
getHistoryMergeAsSettled(T, t) ==
    LET resp == Settled(T, t, Resp(FALSE, FALSE, <<>>, 0))
        combined == Resp(resp[1].error, resp[1].expired,
                         Concat([i \in 1..Len(resp) |-> resp[T[t].order[i]].history]),
                         resp[1].gain)
    IN [next |-> "cache", v |-> combined, c |-> combined, e |-> NoErr]

getHistoryMerge(T, t) ==
    LET resp == Settled(T, t, Resp(FALSE, FALSE, <<>>, 0))
        combined == Resp(resp[1].error, resp[1].expired,
                         Concat([i \in 1..Len(resp) |-> resp[i].history]), resp[1].gain)
    IN [next |-> "cache", v |-> combined, c |-> combined, e |-> NoErr]

\* getHistory, one account: a thrown error is rethrown, an error response is
\* turned into an HttpException, anything else is the result
getHistoryOne(T, t) ==
    LET k == T[KidAt(T, t, 1)] IN
    IF k.status = "thr" THEN [next |-> "thr", v |-> NoVal, c |-> NoVal, e |-> k.err]
    ELSE IF k.val.error
    THEN [next |-> "thr", v |-> NoVal, c |-> NoVal, e |-> FetchFailed(k.val)]
    ELSE [next |-> "cache", v |-> k.val, c |-> k.val, e |-> NoErr]

\* parseDate: null, or the Date (its time in minutes since 1970-01-01 00:00)
parseDate(dateString) ==
    IF ~dateString.hasTime THEN Null
    ELSE IF dateString.nan THEN Null
    ELSE [time |-> DayNumber(dateString.year, dateString.month - 1, dateString.day) * 1440
                   + dateString.hours * 60 + dateString.minutes]

\* the forEach over the records: the summed length (in minutes) and the number
\* of the trades whose times are present, parse, and are in order
RECURSIVE SumTradeLengths(_, _, _, _)
SumTradeLengths(records, i, totalTradeLength, validTrades) ==
    IF i > Len(records)
    THEN [totalTradeLength |-> totalTradeLength, validTrades |-> validTrades]
    ELSE LET trade == records[i]
             openTime == parseDate(trade.openTime)
             closeTime == parseDate(trade.closeTime)
         IN IF ~trade.openTime.present \/ ~trade.closeTime.present
            THEN SumTradeLengths(records, i + 1, totalTradeLength, validTrades)
            ELSE IF openTime /= Null /\ closeTime /= Null
                    /\ closeTime.time - openTime.time >= 0
            THEN SumTradeLengths(records, i + 1,
                                 totalTradeLength + (closeTime.time - openTime.time),
                                 validTrades + 1)
            ELSE SumTradeLengths(records, i + 1, totalTradeLength, validTrades)

\* the statistics of getAverageTradeLength (averageTradeLengthFormatted is the
\* same average written out and is left out)
averageTradeLengthOfAll(records) ==
    LET sums == SumTradeLengths(records, 1, 0, 0) IN
    IF records = <<>> THEN [averageTradeLengthMs |-> 0, totalTrades |-> 0]
    ELSE [averageTradeLengthMs |->
              RoundDiv(sums.totalTradeLength * 60000, Len(records)),
          totalTrades |-> Len(records)]

averageTradeLengthCountingValid(records) ==
    LET sums == SumTradeLengths(records, 1, 0, 0) IN
    IF records = <<>> THEN [averageTradeLengthMs |-> 0, totalTrades |-> 0]
    ELSE [averageTradeLengthMs |->
              IF sums.validTrades > 0
              THEN RoundDiv(sums.totalTradeLength * 60000, sums.validTrades) ELSE 0,
          totalTrades |-> sums.validTrades]

averageTradeLength(records) ==
    LET sums == SumTradeLengths(records, 1, 0, 0) IN
    IF records = <<>> THEN [averageTradeLengthMs |-> 0, totalTrades |-> 0]
    ELSE [averageTradeLengthMs |->
              IF sums.validTrades > 0
              THEN RoundDiv(sums.totalTradeLength * 60000, sums.validTrades) ELSE 0,
          totalTrades |-> Len(records)]

\* getAverageTradeLength: no record, no cache entry; otherwise the statistics
\* of the records are cached and returned
getAverageTradeLength(T, t) ==
    LET k == T[KidAt(T, t, 1)]
        records == k.val.history
        result == averageTradeLength(records)
    IN
    IF k.status = "thr" THEN [next |-> "thr", v |-> NoVal, c |-> NoVal, e |-> k.err]
    ELSE IF records = <<>>
    THEN [next |-> "ret", v |-> result, c |-> NoVal, e |-> NoErr]
    ELSE [next |-> "cache", v |-> result, c |-> result, e |-> NoErr]

extractGainValue(response) == response.gain

\* getGainForPeriod, "default": a call that threw counts as {error: false, gain: 0},
\* a response with the error flag is skipped, the other gains are added up
getGainForPeriodMergeFailFast(T, t) ==
    LET resp == Settled(T, t, Resp(FALSE, FALSE, <<>>, 0))
        totalGain == Sum([i \in 1..Len(resp) |->
                            IF ~resp[i].error THEN extractGainValue(resp[i]) ELSE 0])
        result == GainResult(totalGain, T[t].period)
    IN
    IF \E c \in Kids(T, t) : T[c].status = "thr"
    THEN [next |-> "ret", v |-> GainResult(0, T[t].period), c |-> NoVal, e |-> NoErr]
    ELSE [next |-> "cache", v |-> result, c |-> result, e |-> NoErr]

getGainForPeriodMerge(T, t) ==
    LET resp == Settled(T, t, Resp(FALSE, FALSE, <<>>, 0))
        totalGain == Sum([i \in 1..Len(resp) |->
                            IF ~resp[i].error THEN extractGainValue(resp[i]) ELSE 0])
        result == GainResult(totalGain, T[t].period)
    IN [next |-> "cache", v |-> result, c |-> result, e |-> NoErr]

\* getGainForPeriod, one account: a thrown error or an error response gives
\* gain 0, which is not cached
getGainForPeriodOne(T, t) ==
    LET k == T[KidAt(T, t, 1)]
        zero == GainResult(0, T[t].period)
        result == GainResult(extractGainValue(k.val), T[t].period)
    IN
    IF k.status = "thr" THEN [next |-> "ret", v |-> zero, c |-> NoVal, e |-> NoErr]
    ELSE IF k.val.error THEN [next |-> "ret", v |-> zero, c |-> NoVal, e |-> NoErr]
    ELSE [next |-> "cache", v |-> result, c |-> result, e |-> NoErr]

\* calculateDifference dividing by previous.gain instead of its absolute value
calculateDifferenceSigned(current, previous) ==
    LET diff == current.gain - previous.gain IN
    [difference |-> diff,
     differencePercent |->
        IF previous.gain > 0 THEN RoundDiv(diff * 10000, previous.gain)
        ELSE IF previous.gain < 0 THEN -RoundDiv(diff * 10000, -previous.gain)
        ELSE 0]

\* calculateDifference; differencePercent is kept in hundredths of a percent
calculateDifference(current, previous) ==
    LET diff == current.gain - previous.gain IN
    [difference |-> diff,
     differencePercent |->
        IF previous.gain /= 0 THEN RoundDiv(diff * 10000, Abs(previous.gain)) ELSE 0]

\* getGainComparisons: one pair of periods after the other; the four
\* differences are the result
getGainComparisons(T, t) ==
    LET cur == T[KidAt(T, t, 1)].val
        prev == T[KidAt(T, t, 2)].val
        result == Append(T[t].acc, calculateDifference(cur, prev))
    IN
    IF T[t].stage < NumComparisons
    THEN [next |-> "more", v |-> result, c |-> NoVal, e |-> NoErr]
    ELSE [next |-> "cache", v |-> [comparisons |-> result],
          c |-> [comparisons |-> result], e |-> NoErr]

\* getBalanceProfitability, drawdown: the balances of the normalized records, in
\* order (a record without a balance counts 0)
\* the forEach that finds the peak: the first record holding the largest balance
\* above 0; peakIndex is 0 when there is none (-1 in the code)
RECURSIVE FindPeak(_, _, _, _)
FindPeak(balances, index, peakBalance, peakIndex) ==
    IF index > Len(balances) THEN [peakBalance |-> peakBalance, peakIndex |-> peakIndex]
    ELSE IF balances[index] > peakBalance
    THEN FindPeak(balances, index + 1, balances[index], index)
    ELSE FindPeak(balances, index + 1, peakBalance, peakIndex)

\* the for loop after the peak, from record i on; it breaks at the first record
\* above the minimum found after a drop
RECURSIVE FindTrough(_, _, _, _, _)
FindTrough(balances, i, peakBalance, minBalanceAfterPeak, foundDrop) ==
    IF i > Len(balances)
    THEN IF foundDrop /\ minBalanceAfterPeak < peakBalance
         THEN minBalanceAfterPeak ELSE peakBalance
    ELSE LET balance == balances[i]
             dropped == foundDrop \/ balance < peakBalance
             minimum == IF dropped /\ balance < minBalanceAfterPeak
                        THEN balance ELSE minBalanceAfterPeak
         IN IF dropped /\ minimum < peakBalance /\ balance > minimum
            THEN minimum
            ELSE FindTrough(balances, i + 1, peakBalance, minimum, dropped)

\* drawdownPercent, in hundredths of a percent
drawdownPercentMinOverall(balances) ==
    LET peak == FindPeak(balances, 1, 0, 0)
        troughBalance == Min({balances[i] : i \in 1..Len(balances)} \cup {peak.peakBalance})
    IN IF peak.peakBalance /= 0
       THEN RoundDiv((peak.peakBalance - troughBalance) * 10000, peak.peakBalance)
       ELSE 0

drawdownPercentMinAfterPeak(balances) ==
    LET peak == FindPeak(balances, 1, 0, 0)
        after == {balances[i] : i \in (peak.peakIndex + 1)..Len(balances)}
        troughBalance == IF peak.peakIndex >= 1 /\ after /= {}
                         THEN Min(after \cup {peak.peakBalance}) ELSE peak.peakBalance
    IN IF peak.peakBalance /= 0
       THEN RoundDiv((peak.peakBalance - troughBalance) * 10000, peak.peakBalance)
       ELSE 0

drawdownPercent(balances) ==
    LET peak == FindPeak(balances, 1, 0, 0)
        troughBalance ==
            IF peak.peakIndex >= 1 /\ peak.peakIndex < Len(balances)
            THEN FindTrough(balances, peak.peakIndex + 1, peak.peakBalance,
                            peak.peakBalance, FALSE)
            ELSE peak.peakBalance
    IN IF peak.peakBalance /= 0
       THEN RoundDiv((peak.peakBalance - troughBalance) * 10000, peak.peakBalance)
       ELSE 0

\* getDataDaily on its own: what it makes of the upstream responses.  A daily
\* record is an inner array holding one object; only its profit is looked at.
RECURSIVE totalProfitOf(_)
totalProfitOf(records) ==
    IF records = <<>> THEN 0
    ELSE LET record == Head(records)[1] IN record.profit + totalProfitOf(Tail(records))

\* one account: the response with totalProfit added
dataDailyOne(response) ==
    [dataDaily |-> response.dataDaily, totalProfit |-> totalProfitOf(response.dataDaily)]

\* 'default': the records of every response one after the other, and their profit
dataDailyCombined(allResponses) ==
    LET combinedDataDaily == Concat([i \in 1..Len(allResponses) |-> allResponses[i].dataDaily])
    IN [dataDaily |-> combinedDataDaily, totalProfit |-> totalProfitOf(combinedDataDaily)]

\* getBalanceProfitability: the profitability of the normalized daily records.
\* Record i carries the date i; a number is finite or an infinity of either sign.
Finite(n) == [inf |-> 0, n |-> n]
Infinity(sign) == [inf |-> sign, n |-> 0]

\* the division of two numbers other than 0/0, in units of unit-th, rounded as
\* toFixed rounds
Divide(a, b, unit) ==
    IF b > 0 THEN Finite(RoundDiv(a * unit, b))
    ELSE IF b < 0 THEN Finite(RoundDiv((-a) * unit, -b))
    ELSE Infinity(IF a > 0 THEN 1 ELSE -1)

\* the balance of the first record of the target date, if there is one
getBalanceForDate(normalized, targetDate) ==
    LET matches == {i \in 1..Len(normalized) : normalized[i].date = targetDate} IN
    IF matches = {} THEN Null ELSE [balance |-> normalized[Min(matches)].balance]

\* profitabilityPercent, in hundredths of a percent
profitabilityPercent(normalized, startDate, endDate) ==
    LET startMatch == getBalanceForDate(normalized, startDate)
        endMatch == getBalanceForDate(normalized, endDate)
        startBalance == IF startMatch = Null THEN normalized[1].balance ELSE startMatch.balance
        endBalance == IF endMatch = Null THEN normalized[Len(normalized)].balance
                      ELSE endMatch.balance
    IN IF normalized = <<>> THEN Finite(0)
       ELSE IF startBalance /= 0 THEN Divide(endBalance - startBalance, endBalance, 10000)
       ELSE Finite(0)

\* getDataDaily, "default": a call that threw counts as a response without
\* records, the records are concatenated in the order of the configured ids
getDataDailyMerge(T, t) ==
    LET resp == Settled(T, t, Resp(FALSE, FALSE, <<>>, 0))
        combinedResponse == [error |-> FALSE] @@ dataDailyCombined(resp)
    IN [next |-> "cache", v |-> combinedResponse, c |-> combinedResponse, e |-> NoErr]

\* getDataDaily, one account: a thrown error is rethrown, an error response is
\* turned into an HttpException, anything else gets its totalProfit
getDataDailyOne(T, t) ==
    LET k == T[KidAt(T, t, 1)]
        result == [error |-> FALSE] @@ dataDailyOne(k.val)
    IN
    IF k.status = "thr" THEN [next |-> "thr", v |-> NoVal, c |-> NoVal, e |-> k.err]
    ELSE IF k.val.error
    THEN [next |-> "thr", v |-> NoVal, c |-> NoVal, e |-> FetchFailed(k.val)]
    ELSE [next |-> "cache", v |-> result, c |-> result, e |-> NoErr]

\* the first and the last date of a window of daily data
startDateOf(period) == 1
endDateOf(period) == 2

\* getBalanceProfitability: without records both percentages are 0 and nothing
\* is cached
getBalanceProfitability(T, t) ==
    LET k == T[KidAt(T, t, 1)]
        records == k.val.dataDaily
        normalized == [i \in 1..Len(records) |-> records[i][1]]
        result == [profitabilityPercent |->
                       profitabilityPercent(normalized, startDateOf(T[t].period),
                                            endDateOf(T[t].period)),
                   drawdownPercent |->
                       drawdownPercent([i \in 1..Len(normalized) |-> normalized[i].balance])]
    IN
    IF k.status = "thr" THEN [next |-> "thr", v |-> NoVal, c |-> NoVal, e |-> k.err]
    ELSE IF normalized = <<>>
    THEN [next |-> "ret", v |-> [profitabilityPercent |-> Finite(0), drawdownPercent |-> 0],
          c |-> NoVal, e |-> NoErr]
    ELSE [next |-> "cache", v |-> result, c |-> result, e |-> NoErr]

\* the calls of t that threw, and the one of them that threw first
Thrown(T, t) == {c \in Kids(T, t) : T[c].status = "thr"}
FirstThrown(T, t) ==
    LET first == Min({i \in 1..Len(T[t].order) : T[KidAt(T, t, T[t].order[i])].status = "thr"})
    IN T[KidAt(T, t, T[t].order[first])]

\* getPerformanceSummary returning what it has when a sub-call failed
getPerformanceSummarySettled(T, t) ==
    LET result == [balanceProfitability |->
                       IF T[KidAt(T, t, 1)].status = "thr" THEN Null ELSE T[KidAt(T, t, 1)].val,
                   averageTradeLength |->
                       IF T[KidAt(T, t, 2)].status = "thr" THEN Null ELSE T[KidAt(T, t, 2)].val]
    IN [next |-> "cache", v |-> result, c |-> result, e |-> NoErr]

\* getPerformanceSummary: Promise.all rejects with the first error thrown;
\* otherwise the two results make up the summary
getPerformanceSummary(T, t) ==
    LET result == [balanceProfitability |-> T[KidAt(T, t, 1)].val,
                   averageTradeLength |-> T[KidAt(T, t, 2)].val]
    IN
    IF Thrown(T, t) /= {}
    THEN [next |-> "thr", v |-> NoVal, c |-> NoVal, e |-> FirstThrown(T, t).err]
    ELSE [next |-> "cache", v |-> result, c |-> result, e |-> NoErr]

\* extractProfitAndPips: the sums over the records of a daily-data result
RECURSIVE totalPipsOf(_)
totalPipsOf(records) ==
    IF records = <<>> THEN 0
    ELSE LET record == Head(records)[1] IN record.pips + totalPipsOf(Tail(records))

extractProfitAndPips(response) ==
    [totalProfit |-> totalProfitOf(response.dataDaily),
     totalPips |-> totalPipsOf(response.dataDaily)]

calculateDifferences(current, previous) ==
    [profitDifference |-> current.totalProfit - previous.totalProfit,
     pipsDifference |-> current.totalPips - previous.totalPips]

\* getDailyDataComparisons: one pair of periods after the other (comparePeriods);
\* an error of either call ends the operation
getDailyDataComparisons(T, t) ==
    LET dataA == T[KidAt(T, t, 1)].val
        dataB == T[KidAt(T, t, 2)].val
        result == Append(T[t].acc, calculateDifferences(extractProfitAndPips(dataA),
                                                        extractProfitAndPips(dataB)))
    IN
    IF Thrown(T, t) /= {}
    THEN [next |-> "thr", v |-> NoVal, c |-> NoVal, e |-> FirstThrown(T, t).err]
    ELSE IF T[t].stage < NumComparisons
    THEN [next |-> "more", v |-> result, c |-> NoVal, e |-> NoErr]
    ELSE [next |-> "cache", v |-> [comparisons |-> result],
          c |-> [comparisons |-> result], e |-> NoErr]

\* the operations whose Promise.all is given calls that may throw
RejectsEarly(tk) == tk.fn \in {"getPerformanceSummary", "getDailyDataComparisons"}

\* what an operation does once every call it started has settled
Joined(T, t) ==
    IF T[t].fn = "getMyAccounts" THEN getMyAccounts(T, t)
    ELSE IF T[t].fn = "getDataDaily"
    THEN IF isDefaultAccount(T[t].acct) THEN getDataDailyMerge(T, t) ELSE getDataDailyOne(T, t)
    ELSE IF T[t].fn = "getBalanceProfitability" THEN getBalanceProfitability(T, t)
    ELSE IF T[t].fn = "getPerformanceSummary" THEN getPerformanceSummary(T, t)
    ELSE IF T[t].fn = "getDailyDataComparisons" THEN getDailyDataComparisons(T, t)
    ELSE IF T[t].fn = "getHistory"
    THEN IF isDefaultAccount(T[t].acct) THEN getHistoryMerge(T, t) ELSE getHistoryOne(T, t)
    ELSE IF T[t].fn = "getAverageTradeLength" THEN getAverageTradeLength(T, t)
    ELSE IF T[t].fn = "getGainForPeriod"
    THEN IF isDefaultAccount(T[t].acct) THEN getGainForPeriodMerge(T, t)
         ELSE getGainForPeriodOne(T, t)
    ELSE getGainComparisons(T, t)

\* slots of the settled calls whose last endpoint call upstream answered without error
Succeeded(T, t) ==
    {i \in 1..Cardinality(Kids(T, t)) : T[KidAt(T, t, i)].lastOk}


\* ------------------------------------------------------------------ actions
Init ==
    /\ store = [k \in {} |-> NoVal]
    /\ enableCache \in BOOLEAN
    /\ tasks = [t \in TaskIds |-> NoTask]
    /\ reqs = <<>>
    /\ issued = 0
    /\ faults = 0
    /\ expiries = 0
    /\ cacheDown = FALSE
    /\ fnArgs = Null
    /\ fnResult = Null

\* upstream may fail a call: up to MaxFaults times, or any number of times
\* where the faults are not counted
Uncounted == -1
MayFail == faults = Uncounted \/ faults < MaxFaults
OneMore(n) == IF n = Uncounted THEN Uncounted ELSE n + 1

\* a caller invokes an operation, for a window of dates where it takes one
Invoke(op, session, acct, period) ==
    /\ CanSpawn(1)
    /\ reqs' = Append(reqs, Req(op, session, acct, Inflight = 0, expiries))
    /\ tasks' = Spawn(tasks, <<Task(op, Len(reqs) + 1, 0, 0,
                                    IF op = "logout" THEN "logout.json" ELSE "get-history.json",
                                    session, acct, period)>>)
    /\ UNCHANGED <<store, enableCache, cacheDown, fnArgs, fnResult, issued, faults, expiries>>

\* ... once the requests before it have finished
StartRequestFor(op, session, acct, period) ==
    /\ Inflight < MaxInflight
    /\ Invoke(op, session, acct, period)

StartRequest(op, session, acct) == StartRequestFor(op, session, acct, 0)

\* resolveSession / getOrCreateSession: an explicit token is returned as it is;
\* otherwise the stored Session is read and, when absent, a login follows
getOrCreateSessionAlwaysLogin(S) == [threw |-> FALSE, value |-> Null]

getOrCreateSession(S) == CacheServiceGet(S, sessionCacheKey)

Resolve(t) ==
    LET tk == tasks[t]
        cachedData == getOrCreateSession(store)
    IN
    /\ IsOp(tk) /\ tk.pc = "resolve"
    /\ IF tk.session /= NoTok
       THEN Proceed([tasks EXCEPT ![t].tok = tk.session], reqs, t)
       ELSE IF cachedData.threw
       THEN Throws(tasks, Bump(reqs, tk.rid, "sessGets"), t, CacheFailure)
       ELSE IF cachedData.value /= Null
       THEN Proceed([tasks EXCEPT ![t].tok = cachedData.value.session],
                    Bump(reqs, tk.rid, "sessGets"), t)
       ELSE /\ tasks' = [tasks EXCEPT ![t].pc = "login"]
            /\ reqs' = Bump(reqs, tk.rid, "sessGets")
    /\ UNCHANGED <<store, enableCache, cacheDown, fnArgs, fnResult, issued, faults, expiries>>

\* an error thrown while makeAuthenticatedRequest refreshes the session: inside
\* the try block it reaches the catch block, which classifies it like any other
\* error; inside the catch block it leaves the function
RefreshFailed(tk, e) ==
    IF tk.via = "try"
    THEN IF isSessionExpiredError(e) /\ tk.retry
         THEN [next |-> "clear", e |-> NoErr]
         ELSE [next |-> "thr", e |-> ApiRequestFailed(e)]
    ELSE [next |-> "thr", e |-> e]

\* a login that is skipped when a Session has been stored since it was read
LoginUnlessStored(t) ==
    LET tk == tasks[t] IN
    /\ Alive(tasks, t) /\ tk.pc = "login"
    /\ IF SessionStored
       THEN /\ tasks' = [tasks EXCEPT ![t].tok = store[sessionCacheKey].session,
                                      ![t].pc = IF IsOp(tk) THEN "cacheGet" ELSE "call"]
            /\ reqs' = reqs
            /\ UNCHANGED issued
       ELSE /\ issued < MaxLogins
            /\ issued' = issued + 1
            /\ tasks' = [tasks EXCEPT ![t].tok = issued + 1, ![t].pc = "store"]
            /\ reqs' = Bump(reqs, tk.rid, "logins")
    /\ UNCHANGED <<store, enableCache, cacheDown, fnArgs, fnResult, faults, expiries>>

\* login, as awaited by createAndStoreSession: upstream issues a fresh token or
\* the call fails with an HttpException
Login(t) ==
    LET tk == tasks[t]
        R == Bump(reqs, tk.rid, "logins")
        T == [tasks EXCEPT ![t].nLogins = @ + 1]
    IN
    /\ Alive(tasks, t) /\ tk.pc = "login"
    /\ \/ /\ issued < MaxLogins
          /\ issued' = issued + 1
          /\ tasks' = [T EXCEPT ![t].tok = issued + 1, ![t].pc = "store"]
          /\ reqs' = R
          /\ UNCHANGED faults
       \/ /\ MayFail
          /\ faults' = OneMore(faults)
          /\ UNCHANGED issued
          /\ \E e \in LoginErrors :
               LET RF == Bump(R, tk.rid, "loginFails") IN
               IF IsOp(tk) THEN Throws(T, RF, t, e)
               ELSE LET f == RefreshFailed(tk, e) IN
                    IF f.next = "clear"
                    THEN /\ tasks' = [T EXCEPT ![t].pc = "clear", ![t].via = "catch"]
                         /\ reqs' = RF
                    ELSE Ends(T, RF, t, "thr", NoVal, f.e)
    /\ UNCHANGED <<store, enableCache, cacheDown, fnArgs, fnResult, expiries>>

\* a Session written without its token
SessionMetadataWithoutToken(session) == [session |-> NoTok]

\* what createAndStoreSession stores (createdAt is never read back)
SessionMetadata(session) == [session |-> session]

\* createAndStoreSession after the login: the Session is stored permanently; the
\* operation goes on, makeAuthenticatedRequest calls itself with the new token
\* and retryOnExpiration = false
StoreSession(t) ==
    LET tk == tasks[t]
        R == Bump(reqs, tk.rid, "sessSets")
    IN
    /\ Alive(tasks, t) /\ tk.pc = "store"
    /\ store' = setPermanent(store, sessionCacheKey, SessionMetadata(tk.tok))
    /\ IF IsOp(tk) THEN Proceed(tasks, R, t)
       ELSE /\ tasks' = [tasks EXCEPT ![t].pc = "call", ![t].retry = FALSE]
            /\ reqs' = R
    /\ UNCHANGED <<enableCache, cacheDown, fnArgs, fnResult, issued, faults, expiries>>

\* the cache check of an operation: a hit is returned, a miss starts the body
CacheGet(t) ==
    LET tk == tasks[t]
        cached == CacheServiceGet(store, KeyOf(tk))
    IN
    /\ IsOp(tk) /\ tk.pc = "cacheGet"
    /\ IF cached.threw
       THEN Throws(tasks, reqs, t, CacheFailure)
       ELSE IF cached.value /= Null
       THEN Ends([tasks EXCEPT ![t].hit = TRUE],
                 [reqs EXCEPT ![tk.rid].hit = (tk.parent = 0) \/ @], t,
                 "ret", cached.value, NoErr)
       ELSE /\ CanSpawn(Len(Calls(t, tk)))
            /\ tasks' = Spawn([tasks EXCEPT ![t].pc = "join"], Calls(t, tk))
            /\ reqs' = reqs
    /\ UNCHANGED <<store, enableCache, cacheDown, fnArgs, fnResult, issued, faults, expiries>>

\* makeAuthenticatedRequest taking every thrown error for an expired session
makeAuthenticatedRequestRetryingAll(tk, o) ==
    IF o.thrown
    THEN IF tk.retry
         THEN [next |-> "clear", via |-> "catch", v |-> NoVal, e |-> NoErr]
         ELSE [next |-> "thr", via |-> "none", v |-> NoVal, e |-> ApiRequestFailed(o.e)]
    ELSE IF o.v.error /\ isSessionExpiredError(Err("response", 0, o.v.expired, FALSE, FALSE, 0))
            /\ tk.retry
         THEN [next |-> "clear", via |-> "try", v |-> NoVal, e |-> NoErr]
         ELSE [next |-> "ret", via |-> "none", v |-> o.v, e |-> NoErr]

\* the classification of an endpoint call's outcome by makeAuthenticatedRequest
\* (o.thrown: the HTTP client threw o.e; otherwise the response body is o.v)
makeAuthenticatedRequest(tk, o) ==
    IF o.thrown
    THEN IF isSessionExpiredError(o.e) /\ tk.retry
         THEN [next |-> "clear", via |-> "catch", v |-> NoVal, e |-> NoErr]
         ELSE [next |-> "thr", via |-> "none", v |-> NoVal, e |-> ApiRequestFailed(o.e)]
    ELSE IF o.v.error /\ isSessionExpiredError(Err("response", 0, o.v.expired, FALSE, FALSE, 0))
            /\ tk.retry
         THEN [next |-> "clear", via |-> "try", v |-> NoVal, e |-> NoErr]
         ELSE [next |-> "ret", via |-> "none", v |-> o.v, e |-> NoErr]

\* what upstream can answer to one endpoint call
Outcomes(tk) ==
    {[thrown |-> FALSE, v |-> UpstreamOk(tk.endpoint, tk.acct), e |-> NoErr]}
    \cup (IF MayFail
          THEN {[thrown |-> FALSE, v |-> r, e |-> NoErr] : r \in {UpstreamExpired, UpstreamError}}
               \cup {[thrown |-> TRUE, v |-> NoVal, e |-> x] : x \in AxiosThrown}
          ELSE {})

IsFault(o) == o.thrown \/ o.v.error

\* the outcomes by which upstream reports that the session is no longer valid
SignalsExpiry(o) ==
    IF o.thrown THEN o.e = Axios401 ELSE o.v = UpstreamExpired

\* makeAuthenticatedRequest: the endpoint call completes
Call(t) ==
    LET tk == tasks[t] IN
    /\ tk.fn = "makeAuthenticatedRequest" /\ tk.pc = "call"
    /\ \E o \in Outcomes(tk) :
         LET m == makeAuthenticatedRequest(tk, o)
             again == SignalsExpiry(o) /\ tk.nClears > 0
             R0 == Bump(reqs, tk.rid, "calls")
             R1 == IF SignalsExpiry(o) THEN Bump(R0, tk.rid, "expirySignals")
                   ELSE IF IsFault(o) THEN Bump(R0, tk.rid, "otherFails") ELSE R0
             R == [R1 EXCEPT ![tk.rid].retryExpired = @ \/ again]
             T == [tasks EXCEPT ![t].nCalls = @ + 1, ![t].lastOk = ~IsFault(o),
                                ![t].retryExpired = @ \/ again]
         IN
         /\ faults' = IF IsFault(o) THEN OneMore(faults) ELSE faults
         /\ IF m.next = "clear"
            THEN /\ tasks' = [T EXCEPT ![t].pc = "clear", ![t].via = m.via]
                 /\ reqs' = R
            ELSE Ends(T, R, t, m.next, m.v, m.e)
    /\ UNCHANGED <<store, enableCache, cacheDown, fnArgs, fnResult, issued, expiries>>

\* makeAuthenticatedRequest, session expired: the stored Session is cleared
Clear(t) ==
    LET tk == tasks[t] IN
    /\ tk.fn = "makeAuthenticatedRequest" /\ tk.pc = "clear"
    /\ store' = clearCachedSession(store)
    /\ tasks' = [tasks EXCEPT ![t].pc = "login", ![t].nClears = @ + 1]
    /\ reqs' = Bump(Bump(reqs, tk.rid, "sessDels"), tk.rid, "refreshes")
    /\ UNCHANGED <<enableCache, cacheDown, fnArgs, fnResult, issued, faults, expiries>>

\* every call an operation started has settled: merge, go on, or fail
Join(t) ==
    LET tk == tasks[t]
        j == Joined(tasks, t)
        T == DropKids([tasks EXCEPT ![t].okSet = Succeeded(tasks, t)], t)
    IN
    /\ IsOp(tk) /\ tk.pc = "join"
    /\ KidsDone(tasks, t) \/ (RejectsEarly(tk) /\ Thrown(tasks, t) /= {})
    /\ IF j.next = "cache"
       THEN /\ tasks' = [T EXCEPT ![t].pc = "cacheSet", ![t].val = j.v, ![t].cval = j.c]
            /\ reqs' = reqs
       ELSE IF j.next = "more"
       THEN LET T1 == [T EXCEPT ![t].acc = j.v, ![t].stage = @ + 1, ![t].order = <<>>] IN
            /\ tasks' = Spawn(T1, Calls(t, T1[t]))
            /\ reqs' = reqs
       ELSE IF j.next = "ret" THEN Ends(T, reqs, t, "ret", j.v, NoErr)
       ELSE Throws(T, reqs, t, j.e)
    /\ UNCHANGED <<store, enableCache, cacheDown, fnArgs, fnResult, issued, faults, expiries>>

\* the operation writes to the cache and returns its result
CacheSet(t) ==
    LET tk == tasks[t] IN
    /\ IsOp(tk) /\ tk.pc = "cacheSet"
    /\ store' = CacheServiceSet(store, KeyOf(tk), tk.cval)
    /\ Ends(tasks, Bump(reqs, tk.rid, "dataSets"), t, "ret", tk.val, NoErr)
    /\ UNCHANGED <<enableCache, cacheDown, fnArgs, fnResult, issued, faults, expiries>>

\* logout: one call to logout.json with the caller's token, no retry
logout(o) ==
    IF o.thrown THEN [next |-> "thr", v |-> NoVal, e |-> ApiRequestFailed(o.e)]
    ELSE IF o.v.error THEN [next |-> "thr", v |-> NoVal, e |-> FetchFailed(o.v)]
    ELSE [next |-> "ret", v |-> o.v, e |-> NoErr]

Logout(t) ==
    LET tk == tasks[t] IN
    /\ tk.fn = "logout" /\ tk.pc = "call"
    /\ \E o \in Outcomes(tk) :
         /\ faults' = IF IsFault(o) THEN OneMore(faults) ELSE faults
         /\ Ends(tasks, Bump(reqs, tk.rid, "calls"), t,
                 logout(o).next, logout(o).v, logout(o).e)
    /\ UNCHANGED <<store, enableCache, cacheDown, fnArgs, fnResult, issued, expiries>>

\* the TTL of a cache entry runs out (the Session is stored without one)
Expire(key) ==
    /\ expiries < MaxExpiries
    /\ CacheHas(key) /\ key /= sessionCacheKey
    /\ store' = CacheDrop(store, key)
    /\ expiries' = expiries + 1
    /\ UNCHANGED <<enableCache, cacheDown, fnArgs, fnResult, tasks, reqs, issued, faults>>

Steps ==
    \/ \E t \in TaskIds : Resolve(t)
    \/ \E t \in TaskIds : Login(t)
    \/ \E t \in TaskIds : StoreSession(t)
    \/ \E t \in TaskIds : CacheGet(t)
    \/ \E t \in TaskIds : Call(t)
    \/ \E t \in TaskIds : Clear(t)
    \/ \E t \in TaskIds : Join(t)
    \/ \E t \in TaskIds : CacheSet(t)

\* the operations a caller invokes with or without a token of its own
Ops == {"getMyAccounts", "getHistory", "getAverageTradeLength"}

StartOp ==
    /\ Len(reqs) < MaxRequests
    /\ \E op \in Ops, session \in {NoTok, ExplicitTok}, acct \in AccountIds :
         /\ op = "getMyAccounts" => acct = ""
         /\ StartRequest(op, session, acct)

\* makeAuthenticatedRequest and logout take the caller's token
StartWithToken ==
    /\ Len(reqs) < MaxRequests
    /\ \E op \in {"makeAuthenticatedRequest", "logout"}, i \in 1..NumAccounts :
         StartRequest(op, ExplicitTok, EXNESS_ACCOUNT[i])

Next ==
    \/ StartOp
    \/ StartWithToken
    \/ Steps
    \/ \E t \in TaskIds : Logout(t)
    \/ \E key \in DOMAIN store : Expire(key)

Spec == Init /\ [][Next]_vars

\* one getGainComparisons request, from the initial state
StartComparisons ==
    /\ reqs = <<>>
    /\ \E session \in {NoTok, ExplicitTok}, acct \in AccountIds :
         StartRequest("getGainComparisons", session, acct)

NextCmp == StartComparisons \/ Steps

SpecCmp == Init /\ [][NextCmp]_vars


\* one request for daily data or for a figure derived from it, from the initial
\* state; getBalanceProfitability and getPerformanceSummary with or without dates
DerivedOps == {"getDataDaily", "getBalanceProfitability", "getPerformanceSummary"}

StartDerived ==
    /\ reqs = <<>>
    /\ \E op \in DerivedOps, session \in {NoTok, ExplicitTok}, acct \in AccountIds,
          period \in {0, 1} :
         /\ op = "getDataDaily" => period = 1
         /\ StartRequestFor(op, session, acct, period)

NextDerived == StartDerived \/ Steps

SpecDerived == Init /\ [][NextDerived]_vars


\* one request for the daily-data comparisons, from the initial state
StartDailyComparisons ==
    /\ reqs = <<>>
    /\ \E session \in {NoTok, ExplicitTok}, acct \in AccountIds :
         StartRequest("getDailyDataComparisons", session, acct)

NextDailyCmp == StartDailyComparisons \/ Steps

SpecDailyCmp == Init /\ [][NextDailyCmp]_vars


\* requests for the history of the default account, one after the other, the
\* account id written in either case
DefaultSpellings == {"default", "DEFAULT"}

StartDefault ==
    /\ Len(reqs) < MaxRequests
    /\ \E session \in {NoTok, ExplicitTok}, acct \in DefaultSpellings :
         StartRequest("getHistory", session, acct)

NextSpelling == StartDefault \/ Steps

SpecSpelling == Init /\ [][NextSpelling]_vars


\* requests with no token of their own that are in flight together
StartTogether ==
    /\ Len(reqs) < MaxTogether
    /\ Invoke("getMyAccounts", NoTok, "", 0)

NextTogether == StartTogether \/ Steps

SpecTogether == Init /\ [][NextTogether]_vars


\* one request against an upstream that may fail any call, and any number of
\* calls; every call and every cache access returns (weak fairness of the steps)
InitUncounted ==
    /\ store = [k \in {} |-> NoVal]
    /\ enableCache \in BOOLEAN
    /\ tasks = [t \in TaskIds |-> NoTask]
    /\ reqs = <<>>
    /\ issued = 0
    /\ faults = Uncounted
    /\ expiries = 0
    /\ cacheDown = FALSE
    /\ fnArgs = Null
    /\ fnResult = Null

LiveOps == Ops

StartOne ==
    /\ reqs = <<>>
    /\ \E op \in LiveOps, session \in {NoTok, ExplicitTok}, acct \in AccountIds :
         /\ op = "getMyAccounts" => acct = ""
         /\ StartRequest(op, session, acct)

NextOne == StartOne \/ Steps

SpecLive == InitUncounted /\ [][NextOne]_vars /\ WF_vars(Steps)


\* a complete cache outage: the store is unreachable from the start
InitOutage ==
    /\ store = [k \in {} |-> NoVal]
    /\ enableCache \in BOOLEAN
    /\ tasks = [t \in TaskIds |-> NoTask]
    /\ reqs = <<>>
    /\ issued = 0
    /\ faults = 0
    /\ expiries = 0
    /\ cacheDown = TRUE
    /\ fnArgs = Null
    /\ fnResult = Null

NextOutage == StartOp \/ Steps

SpecOutage == InitOutage /\ [][NextOutage]_vars

\* ---------------------------------------------------- functions on their own
\* the state of the service while a function is computed on its own
Idle ==
    /\ store = [k \in {} |-> NoVal]
    /\ enableCache = TRUE
    /\ tasks = [t \in TaskIds |-> NoTask]
    /\ reqs = <<>>
    /\ issued = 0
    /\ faults = 0
    /\ expiries = 0
    /\ cacheDown = FALSE

StaysIdle == UNCHANGED <<store, enableCache, tasks, reqs, issued, faults, expiries, cacheDown>>

SeqsUpTo(S, n) == UNION {[1..k -> S] : k \in 0..n}

\* generateKey on two parameter lists under one prefix
Characters == {"a", "-", "_"}
Strings == SeqsUpTo(Characters, MaxStrLen)
ParamLists == SeqsUpTo(Strings, MaxParams)
KeyPrefix == "myfxbook:history"

InitKey ==
    /\ Idle
    /\ fnArgs \in {[fn |-> "generateKey", a |-> a, b |-> b] : a \in ParamLists, b \in ParamLists}
    /\ fnResult = Null

GenerateKey ==
    /\ fnArgs.fn = "generateKey" /\ fnResult = Null
    /\ fnResult' = [ka |-> generateKey(KeyPrefix, fnArgs.a),
                    again |-> generateKey(KeyPrefix, fnArgs.a),
                    kb |-> generateKey(KeyPrefix, fnArgs.b)]
    /\ UNCHANGED fnArgs
    /\ StaysIdle

SpecKey == InitKey /\ [][GenerateKey]_vars

\* the drawdown of getBalanceProfitability on its own: every sequence of balances
Balances == -1..MaxBalance

InitBalance ==
    /\ Idle
    /\ fnArgs \in {[fn |-> "drawdown", balances |-> b] : b \in SeqsUpTo(Balances, MaxRecords)}
    /\ fnResult = Null

Drawdown ==
    /\ fnArgs.fn = "drawdown" /\ fnResult = Null
    /\ fnResult' = [drawdownPercent |-> drawdownPercent(fnArgs.balances)]
    /\ UNCHANGED fnArgs
    /\ StaysIdle

SpecBalance == InitBalance /\ [][Drawdown]_vars

\* getAverageTradeLength on the records of a history: times that are missing,
\* lack the time part, do not parse, and three that parse, a minute and two
\* minutes apart across the end of February
TimeMissing == Stamp(FALSE, FALSE, FALSE, 0, 0, 0, 0, 0)
TimeDateOnly == Stamp(TRUE, FALSE, FALSE, 3, 1, 2024, 0, 0)
TimeNotNumbers == Stamp(TRUE, TRUE, TRUE, 0, 1, 2024, 0, 0)
TimeStrings ==
    {TimeMissing, TimeDateOnly, TimeNotNumbers,
     TimeString(2, 29, 2024, 23, 59), TimeString(3, 1, 2024, 0, 0),
     TimeString(3, 1, 2024, 0, 2)}
Trades == [openTime : TimeStrings, closeTime : TimeStrings]

InitTrades ==
    /\ Idle
    /\ fnArgs \in {[fn |-> "averageTradeLength", records |-> r] : r \in SeqsUpTo(Trades, MaxTrades)}
    /\ fnResult = Null

AverageTradeLength ==
    /\ fnArgs.fn = "averageTradeLength" /\ fnResult = Null
    /\ fnResult' = averageTradeLength(fnArgs.records)
    /\ UNCHANGED fnArgs
    /\ StaysIdle

SpecTrades == InitTrades /\ [][AverageTradeLength]_vars

\* getGainComparisons, the date windows: today and yesterday, this week and the
\* previous one, this month and the previous one, this year and the previous one
\* (the periods 1..8 of the calls to getGainForPeriod)
\* formatDate: YYYY-MM-DD
formatDate(date) == <<date.year, date.month + 1, date.date>>

getStartOfWeekFromSunday(date) == setDate(date, date.date - getDay(date))

getStartOfWeek(date) ==
    LET day == getDay(date)
        diff == date.date - day + (IF day = 0 THEN -6 ELSE 1)
    IN setDate(date, diff)

\* a start of month that keeps the day of the month
getStartOfMonthSameDay(date) == NewDate(date.year, date.month, date.date)

getStartOfMonth(date) == NewDate(date.year, date.month, 1)

getStartOfYear(date) == NewDate(date.year, 0, 1)

Window(start, end) == [startDate |-> formatDate(start), endDate |-> formatDate(end)]

comparisonWindows(today) ==
    LET yesterday == setDate(today, today.date - 1)
        thisWeekStart == getStartOfWeek(today)
        previousWeekEnd == setDate(thisWeekStart, thisWeekStart.date - 1)
        previousWeekStart == getStartOfWeek(previousWeekEnd)
        thisMonthStart == getStartOfMonth(today)
        previousMonthEnd == setDate(thisMonthStart, thisMonthStart.date - 1)
        previousMonthStart == getStartOfMonth(previousMonthEnd)
        thisYearStart == getStartOfYear(today)
        previousYearEnd == setDate(thisYearStart, thisYearStart.date - 1)
        previousYearStart == getStartOfYear(previousYearEnd)
    IN <<Window(today, today), Window(yesterday, yesterday),
         Window(thisWeekStart, today), Window(previousWeekStart, previousWeekEnd),
         Window(thisMonthStart, today), Window(previousMonthStart, previousMonthEnd),
         Window(thisYearStart, today), Window(previousYearStart, previousYearEnd)>>

\* "today" ranges from 2023-12-25 on, over the turn of the year and a leap day
FirstDay == DaysFromCivil(2023, 12, 25)

InitWindows ==
    /\ Idle
    /\ fnArgs \in {[fn |-> "comparisonWindows", today |-> CivilFromDays(FirstDay + k)] :
                     k \in 0..MaxDays}
    /\ fnResult = Null

ComparisonWindows ==
    /\ fnArgs.fn = "comparisonWindows" /\ fnResult = Null
    /\ fnResult' = [windows |-> comparisonWindows(fnArgs.today)]
    /\ UNCHANGED fnArgs
    /\ StaysIdle

SpecWindows == InitWindows /\ [][ComparisonWindows]_vars

\* calculateDifference (src/src/common/utils/session.utils.ts) on its own: every
\* pair of gains
Gains == (-MaxGain)..MaxGain

InitDifference ==
    /\ Idle
    /\ fnArgs \in {[fn |-> "calculateDifference", current |-> [gain |-> c],
                    previous |-> [gain |-> p]] : c \in Gains, p \in Gains}
    /\ fnResult = Null

CalculateDifference ==
    /\ fnArgs.fn = "calculateDifference" /\ fnResult = Null
    /\ fnResult' = calculateDifference(fnArgs.current, fnArgs.previous)
    /\ UNCHANGED fnArgs
    /\ StaysIdle

SpecDifference == InitDifference /\ [][CalculateDifference]_vars

Profits == -1..MaxProfit
DailyRecords == {<<[profit |-> p]>> : p \in Profits}
DailyResponses == {[dataDaily |-> d] : d \in SeqsUpTo(DailyRecords, MaxDeltas)}

InitDaily ==
    /\ Idle
    /\ fnArgs \in {[fn |-> "getDataDaily", accountId |-> EXNESS_ACCOUNT[1], responses |-> <<r>>] :
                     r \in DailyResponses}
               \cup {[fn |-> "getDataDaily", accountId |-> "default", responses |-> rs] :
                     rs \in [1..NumAccounts -> DailyResponses]}
    /\ fnResult = Null

DataDaily ==
    /\ fnArgs.fn = "getDataDaily" /\ fnResult = Null
    /\ fnResult' = IF isDefaultAccount(fnArgs.accountId)
                   THEN dataDailyCombined(fnArgs.responses)
                   ELSE dataDailyOne(fnArgs.responses[1])
    /\ UNCHANGED fnArgs
    /\ StaysIdle

SpecDaily == InitDaily /\ [][DataDaily]_vars

\* the records of up to MaxDeltas days, and dates among them or after them
DatedRecords ==
    {[i \in 1..Len(b) |-> [date |-> i, balance |-> b[i]]] : b \in SeqsUpTo(Balances, MaxDeltas)}

InitProfitability ==
    /\ Idle
    /\ fnArgs \in {[fn |-> "profitability", normalized |-> n, startDate |-> s, endDate |-> e] :
                     n \in DatedRecords, s \in 1..(MaxDeltas + 1), e \in 1..(MaxDeltas + 1)}
    /\ fnResult = Null

Profitability ==
    /\ fnArgs.fn = "profitability" /\ fnResult = Null
    /\ fnResult' = [profitabilityPercent |->
                       profitabilityPercent(fnArgs.normalized, fnArgs.startDate, fnArgs.endDate),
                    drawdownPercent |->
                       drawdownPercent([i \in 1..Len(fnArgs.normalized) |->
                                           fnArgs.normalized[i].balance])]
    /\ UNCHANGED fnArgs
    /\ StaysIdle

SpecProfitability == InitProfitability /\ [][Profitability]_vars

\* login on its own.  The credentials are those of the request or, where the
\* request has none, of the configuration; upstream answers with a response
\* body or the HTTP client throws (with the response it got, if it got one).
HttpException(message, status) == [message |-> message, status |-> status]

LoginReturns(session) == [threw |-> FALSE, session |-> session, exception |-> Null, called |-> TRUE]
LoginThrows(exception, called) ==
    [threw |-> TRUE, session |-> "", exception |-> exception, called |-> called]

\* `a || b` on strings
OrElse(a, b) == IF a /= "" THEN a ELSE b

\* login returning every non-empty session, the error flag not looked at
loginIgnoringErrorFlag(loginDto, defaults, outcome) ==
    LET email == OrElse(loginDto.email, defaults.email)
        password == OrElse(loginDto.password, defaults.password)
    IN
    IF email = "" \/ password = ""
    THEN LoginThrows(HttpException(<<"Myfxbook credentials are required">>, 400), FALSE)
    ELSE IF outcome.thrown
    THEN IF outcome.hasResponse
         THEN LoginThrows(HttpException(<<"Myfxbook API error: ", outcome.message>>,
                                        IF outcome.status /= 0 THEN outcome.status ELSE 500), TRUE)
         ELSE LoginThrows(HttpException(<<"Failed to authenticate with Myfxbook: ",
                                          outcome.message>>, 500), TRUE)
    ELSE IF outcome.data.session = ""
    THEN LoginThrows(HttpException(
             <<"Myfxbook authentication failed: ",
               OrElse(outcome.data.message,
                      IF outcome.data.error THEN "true" ELSE "Authentication failed")>>, 401), TRUE)
    ELSE LoginReturns(outcome.data.session)

login(loginDto, defaults, outcome) ==
    LET email == OrElse(loginDto.email, defaults.email)
        password == OrElse(loginDto.password, defaults.password)
    IN
    IF email = "" \/ password = ""
    THEN LoginThrows(HttpException(<<"Myfxbook credentials are required">>, 400), FALSE)
    ELSE IF outcome.thrown
    THEN IF outcome.hasResponse
         THEN LoginThrows(HttpException(<<"Myfxbook API error: ", outcome.message>>,
                                        IF outcome.status /= 0 THEN outcome.status ELSE 500), TRUE)
         ELSE LoginThrows(HttpException(<<"Failed to authenticate with Myfxbook: ",
                                          outcome.message>>, 500), TRUE)
    ELSE IF outcome.data.error \/ outcome.data.session = ""
    THEN LoginThrows(HttpException(
             <<"Myfxbook authentication failed: ",
               OrElse(outcome.data.message,
                      IF outcome.data.error THEN "true" ELSE "Authentication failed")>>, 401), TRUE)
    ELSE LoginReturns(outcome.data.session)

Credentials == [email : {"", "user@example.com"}, password : {"", "secret"}]

LoginResponses ==
    {[thrown |-> FALSE, hasResponse |-> TRUE, status |-> 200, message |-> "", data |-> d] :
        d \in [error : BOOLEAN, session : {"", "token"}, message : {"", "Invalid password"}]}

LoginFailures ==
    {[thrown |-> TRUE, hasResponse |-> h, status |-> s, message |-> "Network Error",
      data |-> [error |-> FALSE, session |-> "", message |-> ""]] :
        h \in BOOLEAN, s \in {0, 503}}

InitLogin ==
    /\ Idle
    /\ fnArgs \in {[fn |-> "login", loginDto |-> c, defaults |-> d, outcome |-> o] :
                     c \in Credentials, d \in Credentials, o \in LoginResponses \cup LoginFailures}
    /\ fnResult = Null

LoginAlone ==
    /\ fnArgs.fn = "login" /\ fnResult = Null
    /\ fnResult' = login(fnArgs.loginDto, fnArgs.defaults, fnArgs.outcome)
    /\ UNCHANGED fnArgs
    /\ StaysIdle

SpecLogin == InitLogin /\ [][LoginAlone]_vars

\* CacheService on its own: set, get and del called one after the other on two
\* keys, with the cache enabled or not; fnArgs.log holds the calls made and what
\* each get returned, with the number of entries expired before the call
TestKeys == {<<"test:key:1">>, <<"test:key:2">>}
TestValues == {[message |-> "Hello Redis"], Zero}

CacheCall(op, key, value) == [op |-> op, key |-> key, value |-> value, expiries |-> expiries]

InitCache ==
    /\ store = [k \in {} |-> NoVal]
    /\ enableCache \in BOOLEAN
    /\ tasks = [t \in TaskIds |-> NoTask]
    /\ reqs = <<>>
    /\ issued = 0
    /\ faults = 0
    /\ expiries = 0
    /\ cacheDown = FALSE
    /\ fnArgs = [fn |-> "CacheService", log |-> <<>>]
    /\ fnResult = Null

Logged(call) ==
    /\ Len(fnArgs.log) < MaxCacheOps
    /\ fnArgs' = [fnArgs EXCEPT !.log = Append(@, call)]
    /\ UNCHANGED <<enableCache, tasks, reqs, issued, faults, expiries, cacheDown>>

SetAlone ==
    \E key \in TestKeys, value \in TestValues :
        /\ Logged(CacheCall("set", key, value))
        /\ store' = CacheServiceSet(store, key, value)
        /\ UNCHANGED fnResult

GetAlone ==
    \E key \in TestKeys :
        /\ Logged(CacheCall("get", key, CacheServiceGet(store, key).value))
        /\ fnResult' = CacheServiceGet(store, key).value
        /\ UNCHANGED store

DelAlone ==
    \E key \in TestKeys :
        /\ Logged(CacheCall("del", key, Null))
        /\ store' = CacheServiceDel(store, key)
        /\ UNCHANGED fnResult

NextCache == SetAlone \/ GetAlone \/ DelAlone \/ \E key \in DOMAIN store : Expire(key)

SpecCache == InitCache /\ [][NextCache]_vars

\* getAggregatedAccounts("default") on its own: what it makes of the accounts
\* upstream lists.  An account carries a numeric id; balance, profit and monthly
\* are numbers (Num) or missing (Null).  averageMonthlyReturn is in hundredths.
Num(n) == [number |-> n]

RawAccount(id, balance, profit, monthly) ==
    [id |-> id, balance |-> balance, profit |-> profit, monthly |-> monthly]

\* Number(x ?? 0)
NumberOrZero(x) == IF x = Null THEN 0 ELSE x.number

NoAggregate == [totalBalance |-> 0, totalProfit |-> 0, averageMonthlyReturn |-> 0]

\* the totals taken over every account upstream lists
getAggregatedAccountsUnfiltered(allAccounts) ==
    LET n == Len(allAccounts) IN
    IF n = 0 THEN NoAggregate
    ELSE [totalBalance |-> Sum([i \in 1..n |-> NumberOrZero(allAccounts[i].balance)]),
          totalProfit |-> Sum([i \in 1..n |-> NumberOrZero(allAccounts[i].profit)]),
          averageMonthlyReturn |->
              RoundDiv(100 * Sum([i \in 1..n |-> NumberOrZero(allAccounts[i].monthly)]), n)]

getAggregatedAccounts(allAccounts) ==
    LET exnessAccounts ==
            SelectSeq(allAccounts, LAMBDA account : Includes(EXNESS_ACCOUNT, ToString(account.id)))
        n == Len(exnessAccounts)
        totalBalance == Sum([i \in 1..n |-> NumberOrZero(exnessAccounts[i].balance)])
        totalProfit == Sum([i \in 1..n |-> NumberOrZero(exnessAccounts[i].profit)])
        totalMonthlyReturn == Sum([i \in 1..n |-> NumberOrZero(exnessAccounts[i].monthly)])
    IN
    IF n = 0 THEN NoAggregate
    ELSE [totalBalance |-> totalBalance, totalProfit |-> totalProfit,
          averageMonthlyReturn |-> RoundDiv(100 * totalMonthlyReturn, n)]

\* the listings of up to MaxListed accounts: configured ids and one that is not
RawAccounts ==
    {RawAccount(id, b, p, m) : id \in (1..NumAccounts) \cup {9}, b \in {Null, Num(1), Num(3)},
                               p \in {Num(-2), Num(1)}, m \in {Null, Num(1), Num(2)}}

InitAggregate ==
    /\ Idle
    /\ fnArgs \in {[fn |-> "getAggregatedAccounts", allAccounts |-> a] :
                     a \in SeqsUpTo(RawAccounts, MaxListed)}
    /\ fnResult = Null

AggregatedAccounts ==
    /\ fnArgs.fn = "getAggregatedAccounts" /\ fnResult = Null
    /\ fnResult' = getAggregatedAccounts(fnArgs.allAccounts)
    /\ UNCHANGED fnArgs
    /\ StaysIdle

SpecAggregate == InitAggregate /\ [][AggregatedAccounts]_vars

\* ------------------------------------------------------------------ claims
Requests == DOMAIN reqs
Finished(r) == reqs[r].status /= "run"

\* the gain upstream reports for the i-th configured account
GainOf(i) == UpstreamOk("get-gain.json", EXNESS_ACCOUNT[i]).gain

RECURSIVE SumOver(_)
SumOver(S) == IF S = {} THEN 0 ELSE LET i == Min(S) IN GainOf(i) + SumOver(S \ {i})

\* C1: one invocation of makeAuthenticatedRequest clears the stored Session at
\* most once, logs in at most once and calls the endpoint at most twice.
C1_RetryPathTakenOnce ==
    \A t \in TaskIds :
        tasks[t].fn = "makeAuthenticatedRequest" =>
            /\ tasks[t].nClears <= 1
            /\ tasks[t].nLogins <= 1
            /\ tasks[t].nCalls <= 2

\* r and r + 1 are consecutive operations without a token of their own, run one
\* after the other with no other request overlapping them
ConsecutiveNoToken(r) ==
    /\ r \in Requests /\ r + 1 \in Requests
    /\ reqs[r].session = NoTok /\ reqs[r + 1].session = NoTok
    /\ reqs[r].alone /\ reqs[r + 1].alone
    /\ r + 2 \in Requests => reqs[r + 2].alone

Undisturbed(r) == reqs[r].loginFails = 0 /\ reqs[r].expirySignals = 0

C2_AtMostOneLoginWhenUndisturbed ==
    \A r \in Requests :
        ConsecutiveNoToken(r) /\ Undisturbed(r) /\ Undisturbed(r + 1) =>
            reqs[r].logins + reqs[r + 1].logins <= 1

C2_ResolveUsesStoredSession ==
    \A t \in TaskIds :
        LET tk == tasks[t] IN
        (/\ IsOp(tk) /\ tk.pc = "resolve" /\ tk.session = NoTok
         /\ SessionStored
         /\ tasks'[t] /= tk)
        => /\ issued' = issued /\ faults' = faults /\ store' = store
           /\ reqs'[tk.rid].logins = reqs[tk.rid].logins
           /\ reqs'[tk.rid].calls = reqs[tk.rid].calls
           /\ Alive(tasks', t) =>
                /\ tasks'[t].tok = store[sessionCacheKey].session
                /\ tasks'[t].pc = "cacheGet"

C3_SecondCallIsIdentical ==
    \A r1, r2 \in Requests :
        (/\ r1 < r2
         /\ reqs[r1].op \in Ops /\ reqs[r1].op = reqs[r2].op
         /\ reqs[r1].session = reqs[r2].session /\ reqs[r1].acct = reqs[r2].acct
         /\ reqs[r1].status = "ret" /\ reqs[r2].status = "ret"
         /\ reqs[r2].alone /\ reqs[r2].exp1 = reqs[r1].exp0)
        => /\ reqs[r2].val = reqs[r1].val
           /\ reqs[r2].calls = 0 /\ reqs[r2].logins = 0

\* C4: an operation whose cache check finds a value under its key returns that
\* value in the same step: no call is started, nothing is written to the cache.
C4_HitStep ==
    \A t \in TaskIds :
        LET tk == tasks[t] IN
        (/\ IsOp(tk) /\ tk.pc = "cacheGet"
         /\ KeyOf(tk) \in DOMAIN store
         /\ tasks'[t] /= tk)
        => /\ store' = store
           /\ issued' = issued /\ faults' = faults
           /\ \A c \in TaskIds : Alive(tasks', c) => Alive(tasks, c)
           /\ reqs'[tk.rid].calls = reqs[tk.rid].calls
           /\ reqs'[tk.rid].dataSets = reqs[tk.rid].dataSets
           /\ IF tk.parent = 0
              THEN /\ reqs'[tk.rid].status = "ret"
                   /\ reqs'[tk.rid].val = store[KeyOf(tk)]
              ELSE /\ tasks'[t].status = "ret"
                   /\ tasks'[t].val = store[KeyOf(tk)]

C4_CacheHitShortCircuits == [][C4_HitStep]_vars

\* a request answered from the cache without any upstream call
C4_Witness ==
    \E r \in Requests :
        reqs[r].hit /\ reqs[r].status = "ret" /\ reqs[r].calls = 0 /\ reqs[r].dataSets = 0

\* C5: the gain of a "default" period is the sum of the gains of the accounts
\* whose call succeeded; failed calls count 0 and the result is never an error.
C5_DefaultGainIsSumOfSucceeded ==
    \A t \in TaskIds :
        LET tk == tasks[t] IN
        (/\ tk.fn = "getGainForPeriod" /\ isDefaultAccount(tk.acct)
         /\ tk.pc \in {"cacheSet", "done"} /\ ~tk.hit)
        => /\ tk.status /= "thr"
           /\ tk.val = GainResult(SumOver(tk.okSet), tk.period)

\* the call for the first account failed, the one for the second succeeded
C5_Witness ==
    \E t \in TaskIds :
        /\ tasks[t].fn = "getGainForPeriod" /\ isDefaultAccount(tasks[t].acct)
        /\ tasks[t].pc = "done" /\ tasks[t].status = "ret"
        /\ tasks[t].okSet = {2}
        /\ tasks[t].val.gain = GainOf(2)

\* C6: one logical request invalidates and refreshes the session at most once.
C6_OneRefreshPerRequest == \A r \in Requests : reqs[r].refreshes <= 1

\* C7: when the call made after a session refresh reports expiry again, the
\* operation fails: it returns no value.
C7_SecondExpiryFails ==
    \A r \in Requests : reqs[r].retryExpired => reqs[r].status /= "ret"

\* C8: an operation given an explicit token never reads, writes or deletes the
\* stored Session.
C8_ExplicitTokenLeavesSessionAlone ==
    \A r \in Requests :
        reqs[r].op \in Ops /\ reqs[r].session /= NoTok =>
            reqs[r].sessGets = 0 /\ reqs[r].sessSets = 0 /\ reqs[r].sessDels = 0

\* C9: the stored Session is deleted when, and only when, an upstream call
\* reports expiry or a logout is made.
C9_DeletedExactlyOnExpiryOrLogout ==
    [][/\ \A r \in Requests :
             reqs[r].op = "logout" /\ reqs[r].status = "run" /\ reqs'[r].status = "ret"
                 => ~SessionStored'
       /\ (SessionStored /\ ~SessionStored')
             => \E r \in Requests :
                    \/ reqs[r].op = "logout" /\ reqs'[r].status = "ret"
                    \/ reqs'[r].sessDels > reqs[r].sessDels /\ reqs[r].expirySignals > 0
      ]_vars

\* C10: a request with an empty accountId fails with the validation error and
\* no upstream call, a login included, is issued for it.
C10_ValidationBeforeUpstream ==
    \A r \in Requests :
        reqs[r].op \in Ops \ {"getMyAccounts"} /\ reqs[r].acct = "" =>
            /\ reqs[r].logins = 0 /\ reqs[r].calls = 0
            /\ Finished(r) => reqs[r].status = "thr" /\ reqs[r].err = AccountIdRequired


\* C11: when an endpoint call for one configured account fails for a reason other
\* than session expiry, the operation that made it fails: it returns no value.
C11_UpstreamFailureSurfaces ==
    \A r \in Requests :
        (/\ reqs[r].acct \in Configured
         /\ reqs[r].otherFails > 0)
        => reqs[r].status /= "ret"

\* the operations whose calls are endpoint calls
CallsEndpoints(tk) == tk.fn \in {"getMyAccounts", "getHistory", "getGainForPeriod"}

\* C12: an operation writes its cache entry only when every endpoint call it
\* made was answered without error.
C12_WriteStep ==
    \A t \in TaskIds :
        LET tk == tasks[t] IN
        (/\ CallsEndpoints(tk) /\ tk.pc = "cacheSet"
         /\ reqs'[tk.rid].dataSets > reqs[tk.rid].dataSets
         /\ tasks'[t] /= tk)
        => tk.okSet = 1..Len(Calls(t, tk))

C12_CacheWrittenAfterSuccessOnly == [][C12_WriteStep]_vars


\* what an operation returns on a cache miss when upstream answers every call
MissResult(op, acct) ==
    IF op = "getMyAccounts"
    THEN [accounts |->
             [i \in 1..(NumAccounts + 1) |->
                 IF i > NumAccounts THEN DEFAULT_ACCOUNT
                 ELSE Account(EXNESS_ACCOUNT[i],
                              IF \E j \in 1..Len(LOW_RISK_ACCOUNT) : LOW_RISK_ACCOUNT[j] = EXNESS_ACCOUNT[i]
                              THEN "FREQ > LOW RISK" ELSE "upstream")]]
    ELSE IF op = "getHistory"
    THEN Resp(FALSE, FALSE,
              IF acct = "default" THEN [i \in 1..NumAccounts |-> TradeOf(EXNESS_ACCOUNT[i])]
              ELSE <<TradeOf(acct)>>, 0)
    ELSE IF acct = "default"
    THEN [averageTradeLengthMs |->
              RoundDiv(60000 * Sum([i \in 1..NumAccounts |-> i]), NumAccounts),
          totalTrades |-> NumAccounts]
    ELSE [averageTradeLengthMs |-> 60000 * IndexOf(acct), totalTrades |-> 1]

Unfailed(r) ==
    reqs[r].loginFails = 0 /\ reqs[r].expirySignals = 0 /\ reqs[r].otherFails = 0

\* C13: with the store unreachable, CacheService reports misses and swallows the
\* errors of set and del: no operation fails because of the cache, none is
\* answered from it, and an operation whose upstream calls all succeed returns
\* what it returns on a cache miss.
C13_OutageDegradesToMiss ==
    /\ DOMAIN store = {}
    /\ \A r \in Requests :
        /\ ~reqs[r].hit
        /\ reqs[r].err.tag /= "cache"
        /\ (Finished(r) /\ Unfailed(r) /\ (reqs[r].op = "getMyAccounts" \/ reqs[r].acct /= ""))
            => /\ reqs[r].status = "ret"
               /\ reqs[r].val = MissResult(reqs[r].op, reqs[r].acct)

\* a request served during the outage: it logged in, tried to store the Session
\* and its result, and returned
C13_Witness ==
    /\ cacheDown
    /\ \E r \in Requests :
        /\ reqs[r].status = "ret" /\ reqs[r].session = NoTok
        /\ reqs[r].logins = 1 /\ reqs[r].sessSets = 1 /\ reqs[r].dataSets >= 1
        /\ reqs[r].val = MissResult(reqs[r].op, reqs[r].acct)


\* C14: two parameter lists under one prefix that differ in at least one
\* parameter get different keys.
C14_DifferentParametersDifferentKeys ==
    fnResult /= Null =>
        ((/\ Len(fnArgs.a) = Len(fnArgs.b)
          /\ \E i \in 1..Len(fnArgs.a) : fnArgs.a[i] /= fnArgs.b[i])
         => fnResult.ka /= fnResult.kb)

\* position in the key just before the i-th parameter
KeyOffset(params, i) == 2 + Sum([k \in 1..(i - 1) |-> Len(params[k]) + 1])

KeyLength(params) ==
    IF params = <<>> THEN 2 ELSE KeyOffset(params, Len(params)) + Len(params[Len(params)])

\* C15: the key is the prefix, a ':' and the parameters separated by ':', each
\* character of a parameter kept when alphanumeric and '_' otherwise; a second
\* call with the same inputs returns the same key.
C15_KeyFormat ==
    fnResult /= Null =>
        LET key == fnResult.ka
            params == fnArgs.a
        IN
        /\ key[1] = KeyPrefix /\ key[2] = ":"
        /\ Len(key) = KeyLength(params)
        /\ \A i \in 1..Len(params) :
            /\ i > 1 => key[KeyOffset(params, i)] = ":"
            /\ \A j \in 1..Len(params[i]) :
                key[KeyOffset(params, i) + j] =
                    IF params[i][j] = "a" THEN "a" ELSE "_"
        /\ fnResult.again = key

\* 'a-' and 'a' under the prefix give prefix:a_:a
C15_Witness ==
    /\ fnResult /= Null
    /\ fnArgs.a = << <<"a", "-">>, <<"a">> >>
    /\ fnResult.ka = <<KeyPrefix, ":", "a", "_", ":", "a">>


Max(S) == CHOOSE x \in S : \A y \in S : x >= y

\* the largest balance of a non-empty sequence and the first record holding it
Largest(b) == Max({b[i] : i \in 1..Len(b)})
FirstAt(b, v) == Min({i \in 1..Len(b) : b[i] = v})

NonDecreasing(b) == \A i \in 1..(Len(b) - 1) : b[i] <= b[i + 1]

NoDropAfterPeak(b) ==
    b /= <<>> => \A i \in (FirstAt(b, Largest(b)) + 1)..Len(b) : b[i] >= Largest(b)

\* C16: the drawdown is 0 for every non-decreasing balance sequence, and for
\* every sequence in which no balance after the peak is below the peak.
C16_NoDropNoDrawdown ==
    fnResult /= Null =>
        (NonDecreasing(fnArgs.balances) \/ NoDropAfterPeak(fnArgs.balances)
            => fnResult.drawdownPercent = 0)

\* balances rise to the peak and stay there
C16_Witness ==
    /\ fnResult /= Null
    /\ fnArgs.balances = <<1, 2, 3, 3>>
    /\ fnResult.drawdownPercent = 0

\* the first record after the peak that is below it, Len(b) + 1 when there is none
FirstDrop(b) ==
    LET p == FirstAt(b, Largest(b)) IN
    Min({i \in (p + 1)..Len(b) : b[i] < Largest(b)} \cup {Len(b) + 1})

HasDrop(b) == b /= <<>> /\ FirstDrop(b) <= Len(b)

RunningMin(b, d, j) == Min({b[k] : k \in d..j})

\* the first record after the drop that is above the running minimum
FirstRecovery(b) ==
    LET d == FirstDrop(b) IN
    Min({j \in (d + 1)..Len(b) : b[j] > RunningMin(b, d, j)} \cup {Len(b) + 1})

Trough(b) == RunningMin(b, FirstDrop(b), FirstRecovery(b) - 1)

\* (peak - trough) / peak as a percentage in hundredths
DrawdownOf(peak, trough) ==
    IF peak > 0 THEN RoundDiv((peak - trough) * 10000, peak)
    ELSE -RoundDiv((peak - trough) * 10000, -peak)

Parses(ts) == ts.present /\ ts.hasTime /\ ~ts.nan
MinuteOf(ts) == DaysFromCivil(ts.year, ts.month, ts.day) * 1440 + ts.hours * 60 + ts.minutes

ValidTrade(trade) ==
    /\ Parses(trade.openTime) /\ Parses(trade.closeTime)
    /\ MinuteOf(trade.closeTime) >= MinuteOf(trade.openTime)

ValidTrades(records) == {i \in 1..Len(records) : ValidTrade(records[i])}

RECURSIVE SumOfLengths(_, _)
SumOfLengths(records, V) ==
    IF V = {} THEN 0
    ELSE LET i == Min(V) IN
         MinuteOf(records[i].closeTime) - MinuteOf(records[i].openTime)
             + SumOfLengths(records, V \ {i})

\* C18: the average trade length is the summed length of the valid trades divided
\* by their number (in milliseconds, rounded), a trade being valid when both
\* times parse and the close is not before the open; it is 0 when none is valid.
C18_AverageOverValidTrades ==
    fnResult /= Null =>
        LET records == fnArgs.records
            V == ValidTrades(records)
        IN fnResult.averageTradeLengthMs =
               IF V = {} THEN 0
               ELSE RoundDiv(60000 * SumOfLengths(records, V), Cardinality(V))

\* a trade of one minute across midnight and a trade closed before it opened
C18_Witness ==
    /\ fnResult /= Null
    /\ fnArgs.records =
         <<[openTime |-> TimeString(2, 29, 2024, 23, 59), closeTime |-> TimeString(3, 1, 2024, 0, 0)],
           [openTime |-> TimeString(3, 1, 2024, 0, 2), closeTime |-> TimeString(3, 1, 2024, 0, 0)]>>
    /\ fnResult.averageTradeLengthMs = 60000

\* C19: totalTrades is the number of history records, the records left out of
\* the average included.
C19_TotalTradesCountsEveryRecord ==
    fnResult /= Null => fnResult.totalTrades = Len(fnArgs.records)

\* two records, one without a close time and one that does not parse
C19_Witness ==
    /\ fnResult /= Null
    /\ Len(fnArgs.records) = 2
    /\ fnArgs.records[1].closeTime = TimeMissing
    /\ fnArgs.records[2].openTime = TimeNotNumbers
    /\ ValidTrades(fnArgs.records) = {}
    /\ fnResult.totalTrades = 2 /\ fnResult.averageTradeLengthMs = 0


\* the day number of a formatted date, and whether it is a Monday or a Sunday
\* (1970-01-05, day 4, was a Monday)
DayOf(ymd) == DaysFromCivil(ymd[1], ymd[2], ymd[3])
IsMonday(n) == (n + 3) % 7 = 0
IsSunday(n) == (n + 4) % 7 = 0

\* C20: the week starts on the Monday of today's week (today when it is a Monday,
\* six days earlier when it is a Sunday), the month on its 1st, the year on
\* January 1, and each current window ends today.
C20_CurrentWindows ==
    fnResult /= Null =>
        LET w == fnResult.windows
            today == formatDate(fnArgs.today)
            t == DayOf(today)
            weekStart == DayOf(w[3].startDate)
        IN
        /\ IsMonday(weekStart) /\ weekStart <= t /\ t <= weekStart + 6
        /\ IsMonday(t) => w[3].startDate = today
        /\ IsSunday(t) => weekStart = t - 6
        /\ w[5].startDate = <<today[1], today[2], 1>>
        /\ w[7].startDate = <<today[1], 1, 1>>
        /\ w[1].startDate = today
        /\ \A i \in {1, 3, 5, 7} : w[i].endDate = today

\* today is Friday 2024-03-15: the week starts on 2024-03-11, the month on
\* 2024-03-01, the year on 2024-01-01
C20_Witness ==
    /\ fnResult /= Null
    /\ formatDate(fnArgs.today) = <<2024, 3, 15>>
    /\ fnResult.windows[3] = [startDate |-> <<2024, 3, 11>>, endDate |-> <<2024, 3, 15>>]
    /\ fnResult.windows[5].startDate = <<2024, 3, 1>>
    /\ fnResult.windows[7].startDate = <<2024, 1, 1>>

\* C21: calculateDifference gives differencePercent = (current - previous) /
\* |previous| * 100 (to the hundredth of a percent the result is rounded to) when
\* previous is not 0, and 0 when previous is 0.
C21_DifferencePercent ==
    fnResult /= Null =>
        LET cur == fnArgs.current.gain
            prev == fnArgs.previous.gain
            pct == fnResult.differencePercent
        IN
        /\ fnResult.difference = cur - prev
        /\ prev = 0 => pct = 0
        /\ prev /= 0 =>
             \* pct / 100 is within half a hundredth of (cur - prev) / |prev| * 100
             2 * Abs(pct * Abs(prev) - (cur - prev) * 10000) <= Abs(prev)

\* from a previous gain of 0 to a gain of 3: no percentage, not a division by 0
C21_Witness ==
    /\ fnResult /= Null
    /\ fnArgs.previous.gain = 0 /\ fnArgs.current.gain = 3
    /\ fnResult = [difference |-> 3, differencePercent |-> 0]

\* the records of the responses in call order, and the running sum of their profits
DeltasOf(responses) == Concat([i \in 1..Len(responses) |-> responses[i].dataDaily])
RunningSum(records, i) == Sum([k \in 1..i |-> records[k][1].profit])

\* C22: the daily-data result carries a cumulative profit series: the first record
\* is unchanged and the profit of every later record is the sum of the deltas up
\* to and including its own; for 'default' over the concatenated records.
C22_CumulativeProfitSeries ==
    fnResult /= Null /\ fnArgs.fn = "getDataDaily" =>
        LET deltas == DeltasOf(fnArgs.responses) IN
        /\ Len(fnResult.dataDaily) = Len(deltas)
        /\ \A i \in 1..Len(deltas) :
               fnResult.dataDaily[i][1].profit = RunningSum(deltas, i)

\* the ids of a listing, in order
IdsOf(listing) == [i \in 1..Len(listing) |-> listing[i].id]

\* C23: every listing getMyAccounts returns, from upstream or from the cache, is
\* the upstream accounts with a configured id followed by exactly one entry with
\* id 'default', the low-risk ids (and only they) under the low-risk name.
C23_ListingEndsWithDefault ==
    \A r \in Requests :
        reqs[r].op = "getMyAccounts" /\ reqs[r].status = "ret" =>
            LET listing == reqs[r].val.accounts IN
            /\ IdsOf(listing) = EXNESS_ACCOUNT \o <<"default">>
            /\ \A i \in 1..Len(listing) :
                   (listing[i].name = "FREQ > LOW RISK")
                       <=> (\E j \in 1..Len(LOW_RISK_ACCOUNT) : LOW_RISK_ACCOUNT[j] = listing[i].id)

\* the balance at a date: of the first record of that date, else of the fallback record
BalanceAt(records, date, fallback) ==
    IF \E i \in 1..Len(records) : records[i].date = date
    THEN records[Min({i \in 1..Len(records) : records[i].date = date})].balance
    ELSE records[fallback].balance

\* C24: the profitability reported is (endBalance - startBalance) / startBalance
\* (as a percentage, to the hundredth), and 0 when startBalance is 0.
C24_ProfitabilityOverStartBalance ==
    fnResult /= Null /\ fnArgs.fn = "profitability" /\ fnArgs.normalized /= <<>> =>
        LET records == fnArgs.normalized
            startBalance == BalanceAt(records, fnArgs.startDate, 1)
            endBalance == BalanceAt(records, fnArgs.endDate, Len(records))
        IN fnResult.profitabilityPercent =
               IF startBalance = 0 THEN Finite(0)
               ELSE Divide(endBalance - startBalance, startBalance, 10000)

\* the credentials login uses: those of the request, else those of the configuration
EmailUsed == IF fnArgs.loginDto.email /= "" THEN fnArgs.loginDto.email ELSE fnArgs.defaults.email
PasswordUsed ==
    IF fnArgs.loginDto.password /= "" THEN fnArgs.loginDto.password ELSE fnArgs.defaults.password

\* C25: every per-account operation rejects an empty accountId with the
\* 'Account ID is required' error (BAD_REQUEST), and the rejection is never
\* turned into an internal-server error: a request with an empty accountId whose
\* session was resolved has thrown exactly that error.
C25_EmptyAccountIdIsBadRequest ==
    \A r \in Requests :
        (reqs[r].acct = "" /\ reqs[r].tok /= NoTok)
        => /\ reqs[r].status = "thr"
           /\ reqs[r].err = AccountIdRequired
           /\ reqs[r].err.code = 400

\* C26: login returns a token only when the upstream response has no error flag
\* and a non-empty session, and then that session; a response with the error flag
\* or without a session makes it fail with an authentication error (401) that
\* carries the upstream message; without an email or a password it fails without
\* calling upstream.
C26_LoginOutcome ==
    fnResult /= Null /\ fnArgs.fn = "login" =>
        LET o == fnArgs.outcome IN
        /\ ~fnResult.threw =>
             /\ fnResult.called /\ ~o.thrown
             /\ ~o.data.error /\ o.data.session /= ""
             /\ fnResult.session = o.data.session
        /\ (EmailUsed /= "" /\ PasswordUsed /= "" /\ ~o.thrown
            /\ (o.data.error \/ o.data.session = "")) =>
             /\ fnResult.threw /\ fnResult.exception.status = 401
             /\ fnResult.exception.message[1] = "Myfxbook authentication failed: "
             /\ o.data.message /= "" => fnResult.exception.message[2] = o.data.message
        /\ (EmailUsed = "" \/ PasswordUsed = "") => fnResult.threw /\ ~fnResult.called

\* upstream answers with the error flag, a message and yet a session
C26_Witness ==
    /\ fnResult /= Null /\ fnArgs.fn = "login"
    /\ EmailUsed /= "" /\ PasswordUsed /= ""
    /\ ~fnArgs.outcome.thrown
    /\ fnArgs.outcome.data = [error |-> TRUE, session |-> "token", message |-> "Invalid password"]
    /\ fnResult.threw /\ fnResult.called
    /\ fnResult.exception =
         HttpException(<<"Myfxbook authentication failed: ", "Invalid password">>, 401)

\* r2 was answered from the cache with what r1 wrote: the same operation on the
\* same account, and no request between them wrote
AnsweredFrom(r1, r2) ==
    /\ r1 < r2
    /\ reqs[r1].op \in Ops /\ reqs[r1].op = reqs[r2].op /\ reqs[r1].acct = reqs[r2].acct
    /\ reqs[r1].dataSets > 0 /\ reqs[r2].hit
    /\ \A r \in Requests : r1 < r /\ r < r2 => reqs[r].dataSets = 0

\* C27: a value cached for a request resolved under one session token is never
\* returned to a request resolved under another session token.
C27_CacheIsolatedBySession ==
    \A r1, r2 \in Requests : AnsweredFrom(r1, r2) => reqs[r1].tok = reqs[r2].tok

\* the last set or del of the key of call i before it, 0 when there is none
LastWrite(log, i) ==
    LET W == {j \in 1..(i - 1) : log[j].key = log[i].key /\ log[j].op \in {"set", "del"}}
    IN IF W = {} THEN 0 ELSE Max(W)

\* the two calls of getPerformanceSummary as they are right after being started
Started(T, t, slot, fn, period) ==
    \E c \in Kids(T, t) :
        /\ T[c].slot = slot /\ T[c].fn = fn
        /\ T[c].pc = "resolve" /\ T[c].status = "run"
        /\ T[c].session = tasks[t].tok /\ T[c].acct = tasks[t].acct
        /\ T[c].period = period

Misses(t) ==
    /\ tasks[t].fn = "getPerformanceSummary"
    /\ tasks[t].pc = "cacheGet" /\ tasks'[t].pc = "join"

\* the step in which getPerformanceSummary goes on after its Promise.all
Resumes(t) ==
    /\ tasks[t].fn = "getPerformanceSummary"
    /\ tasks[t].pc = "join" /\ tasks'[t].pc /= "join"

SummaryOfCalls(T, t) ==
    [balanceProfitability |-> T[KidAt(T, t, 1)].val,
     averageTradeLength |-> T[KidAt(T, t, 2)].val]

MergesOrFails(t) ==
    LET rid == tasks[t].rid IN
    IF Thrown(tasks, t) /= {}
    THEN /\ reqs'[rid].status = "thr"
         /\ reqs'[rid].err \in {tasks[c].err : c \in Thrown(tasks, t)}
    ELSE /\ \A c \in Kids(tasks, t) : tasks[c].status = "ret"
         /\ tasks'[t].pc = "cacheSet"
         /\ tasks'[t].val = SummaryOfCalls(tasks, t)
         /\ reqs'[rid].status = "run"

ReturnsSummary(t) ==
    (tasks[t].fn = "getPerformanceSummary" /\ tasks[t].pc = "cacheSet" /\ tasks'[t] /= tasks[t])
    => /\ reqs'[tasks[t].rid].status = "ret"
       /\ reqs'[tasks[t].rid].val = tasks[t].val

\* C28 as stated: on a miss both calls are started, in one step, for the account
\* and the dates of the summary; the summary is their two results; it fails
\* when either call fails.
C28_StepSameDates ==
    \A t \in TaskIds :
        /\ Misses(t) =>
              /\ Cardinality(Kids(tasks', t)) = 2
              /\ Started(tasks', t, 1, "getBalanceProfitability", tasks[t].period)
              /\ Started(tasks', t, 2, "getAverageTradeLength", tasks[t].period)
        /\ Resumes(t) => MergesOrFails(t)
        /\ ReturnsSummary(t)

C28_SummaryOfSameDates == [][C28_StepSameDates]_vars

C28_Step ==
    \A t \in TaskIds :
        /\ Misses(t) =>
              /\ Cardinality(Kids(tasks', t)) = 2
              /\ Started(tasks', t, 1, "getBalanceProfitability", tasks[t].period)
              /\ Started(tasks', t, 2, "getAverageTradeLength", 0)
        /\ Resumes(t) => MergesOrFails(t)
        /\ ReturnsSummary(t)

\* C28: on a cache miss getPerformanceSummary starts, in one step and before it
\* awaits either, getBalanceProfitability for its account and dates and
\* getAverageTradeLength for its account (that call takes no dates); it returns
\* exactly their two results as one object, and it fails, with the error of one
\* of them, when either of them fails.
C28_SummaryOfTwoCalls == [][C28_Step]_vars

C28_Witness ==
    \E r \in Requests :
        /\ reqs[r].op = "getPerformanceSummary" /\ reqs[r].acct = "2"
        /\ reqs[r].status = "ret" /\ ~reqs[r].hit /\ reqs[r].calls = 2
        /\ reqs[r].val.averageTradeLength = MissResult("getAverageTradeLength", "2")
        /\ reqs[r].val.balanceProfitability
               = [profitabilityPercent |-> Finite(-5000), drawdownPercent |-> 3333]

\* C29: get(k) returns v after set(k, v) with no del and no expiry in between,
\* null after del(k), and null for a key that was never set.
C29_SetGetDel ==
    fnArgs /= Null /\ fnArgs.fn = "CacheService" =>
        \A i \in 1..Len(fnArgs.log) :
            LET log == fnArgs.log
                w == LastWrite(log, i)
            IN log[i].op = "get" =>
                 /\ w = 0 => log[i].value = Null
                 /\ (w /= 0 /\ log[w].op = "del") => log[i].value = Null
                 /\ (w /= 0 /\ log[w].op = "set" /\ log[w].expiries = log[i].expiries)
                        => log[i].value = log[w].value

\* an invocation that fans out over the configured accounts
FansOut(tk) == tk.fn \in {"getHistory", "getGainForPeriod"} /\ isDefaultAccount(tk.acct)

\* what call i of the fan-out of t contributes: nothing when it threw
HistoryOfCall(t, i) ==
    IF tasks[KidAt(tasks, t, i)].status = "thr" THEN <<>>
    ELSE tasks[KidAt(tasks, t, i)].val.history

GainOfCall(t, i) ==
    LET k == tasks[KidAt(tasks, t, i)] IN
    IF k.status = "thr" \/ k.val.error THEN 0 ELSE k.val.gain

\* C30: a 'default' fan-out is merged only when every per-account call has
\* returned or thrown, and written to the cache only after that; the merged
\* result is made of the calls' results by position in the configured account
\* list, whatever the order in which they settled.
C30_MergeStep ==
    \A t \in TaskIds :
        /\ (FansOut(tasks[t]) /\ tasks[t].pc = "join" /\ tasks'[t].pc /= "join") =>
              /\ Cardinality(Kids(tasks, t)) = NumAccounts
              /\ \A c \in Kids(tasks, t) : tasks[c].status /= "run"
              /\ tasks'[t].pc = "cacheSet" /\ store' = store
              /\ tasks[t].fn = "getHistory" =>
                    tasks'[t].val.history =
                        Concat([i \in 1..NumAccounts |-> HistoryOfCall(t, i)])
              /\ tasks[t].fn = "getGainForPeriod" =>
                    tasks'[t].val.gain = Sum([i \in 1..NumAccounts |-> GainOfCall(t, i)])
        /\ (FansOut(tasks[t]) /\ store' /= store /\ tasks[t].pc = "cacheSet"
            /\ tasks'[t].pc /= "cacheSet") =>
              /\ Len(tasks[t].order) = NumAccounts
              /\ \A c \in TaskIds : ~(Alive(tasks, c) /\ tasks[c].parent = t)

C30_JoinAllBarrier == [][C30_MergeStep]_vars

\* the call for the second account settled before the call for the first, and
\* the merged history holds the trade of the first account before that of the second
C30_Witness ==
    \E t \in TaskIds :
        /\ tasks[t].fn = "getHistory" /\ isDefaultAccount(tasks[t].acct)
        /\ tasks[t].pc = "cacheSet"
        /\ tasks[t].order = <<2, 1>>
        /\ tasks[t].val.history = <<TradeOf(EXNESS_ACCOUNT[1]), TradeOf(EXNESS_ACCOUNT[2])>>

\* C38: getBalanceProfitability never divides by zero: whatever the daily
\* balances, zero start or end balances included, both percentages are finite.
C38_PercentagesFinite ==
    fnResult /= Null /\ fnArgs.fn = "profitability" =>
        /\ fnResult.profitabilityPercent.inf = 0
        /\ fnResult.drawdownPercent \in Int

\* a previous window and the current window it is compared with
PreviousFollowedBy(previous, current, today) ==
    /\ DayOf(previous.endDate) = DayOf(current.startDate) - 1
    /\ DayOf(previous.startDate) <= DayOf(previous.endDate)
    /\ DayOf(previous.endDate) < DayOf(current.startDate)
    /\ DayOf(current.startDate) <= DayOf(today)

\* C39: for every "today", each previous window ends on the day before the
\* current window it is compared with starts, and starts at the start of the
\* week (Monday), month (the 1st) or year (January 1) of that day; so the two
\* windows never overlap and previous start <= previous end < current start <= today.
C39_PreviousWindows ==
    fnResult /= Null /\ fnArgs.fn = "comparisonWindows" =>
        LET w == fnResult.windows
            today == formatDate(fnArgs.today)
        IN
        /\ \A i \in {1, 3, 5, 7} : PreviousFollowedBy(w[i + 1], w[i], today)
        /\ w[2].startDate = w[2].endDate
        /\ IsMonday(DayOf(w[4].startDate))
        /\ DayOf(w[4].startDate) = DayOf(w[4].endDate) - 6
        /\ w[6].startDate = <<w[6].endDate[1], w[6].endDate[2], 1>>
        /\ w[8].startDate = <<w[8].endDate[1], 1, 1>>

\* today is Friday 2024-03-01: the previous week is 2024-02-19..25, the previous
\* month 2024-02-01..29, the previous year 2023
C39_Witness ==
    /\ fnResult /= Null
    /\ formatDate(fnArgs.today) = <<2024, 3, 1>>
    /\ fnResult.windows[2] = [startDate |-> <<2024, 2, 29>>, endDate |-> <<2024, 2, 29>>]
    /\ fnResult.windows[4] = [startDate |-> <<2024, 2, 19>>, endDate |-> <<2024, 2, 25>>]
    /\ fnResult.windows[6] = [startDate |-> <<2024, 2, 1>>, endDate |-> <<2024, 2, 29>>]
    /\ fnResult.windows[8] = [startDate |-> <<2023, 1, 1>>, endDate |-> <<2023, 12, 31>>]

\* the sum of f over the indices in S
RECURSIVE SumOf(_, _)
SumOf(f, S) == IF S = {} THEN 0 ELSE LET i == Min(S) IN f[i] + SumOf(f, S \ {i})

\* the positions of the listing that hold a configured account
ConfiguredIn(allAccounts) ==
    {i \in 1..Len(allAccounts) : ToString(allAccounts[i].id) \in Configured}

\* C35: getAggregatedAccounts('default') returns the sum of balance, the sum of
\* profit and the mean of monthly (to the hundredth, a missing figure counting
\* as 0) over exactly the listed accounts whose id is configured; all zeros
\* when none is listed.
C35_AggregateOverConfigured ==
    fnResult /= Null /\ fnArgs.fn = "getAggregatedAccounts" =>
        LET all == fnArgs.allAccounts
            S == ConfiguredIn(all)
        IN
        IF S = {}
        THEN fnResult = [totalBalance |-> 0, totalProfit |-> 0, averageMonthlyReturn |-> 0]
        ELSE /\ fnResult.totalBalance =
                    SumOf([i \in 1..Len(all) |-> NumberOrZero(all[i].balance)], S)
             /\ fnResult.totalProfit =
                    SumOf([i \in 1..Len(all) |-> NumberOrZero(all[i].profit)], S)
             /\ fnResult.averageMonthlyReturn =
                    RoundDiv(100 * SumOf([i \in 1..Len(all) |-> NumberOrZero(all[i].monthly)], S),
                             Cardinality(S))

\* accounts 9 and 1 listed: only account 1 counts
C35_Witness ==
    /\ fnArgs.fn = "getAggregatedAccounts"
    /\ fnArgs.allAccounts = <<RawAccount(9, Num(3), Num(1), Num(2)), RawAccount(1, Num(1), Num(-2), Num(1))>>
    /\ fnResult = [totalBalance |-> 1, totalProfit |-> -2, averageMonthlyReturn |-> 100]

\* C34: requests that name the default account in different letter case are the
\* same logical request: both fan out, and the later one, resolved under the
\* same session after the earlier one returned and wrote its result to the
\* cache, is answered from the cache.
C34_DefaultInAnyCaseHits ==
    \A r1, r2 \in Requests :
        (/\ r1 < r2
         /\ reqs[r1].op = reqs[r2].op
         /\ isDefaultAccount(reqs[r1].acct) /\ isDefaultAccount(reqs[r2].acct)
         /\ reqs[r1].status = "ret" /\ reqs[r1].dataSets = 1
         /\ reqs[r1].tok = reqs[r2].tok
         /\ Finished(r2))
        => reqs[r2].hit /\ reqs[r2].calls = 0

\* the endpoint call that task t was waiting for has completed
Called(t) ==
    /\ tasks[t].fn = "makeAuthenticatedRequest" /\ tasks[t].pc = "call"
    /\ reqs'[tasks[t].rid].calls = reqs[tasks[t].rid].calls + 1
    /\ tasks'[t] /= tasks[t]

C32_Step ==
    \A t \in TaskIds :
        LET r == tasks[t].rid IN
        (Called(t) /\ reqs'[r].otherFails = reqs[r].otherFails + 1)
        => /\ store' = store /\ issued' = issued
           /\ reqs'[r].logins = reqs[r].logins
           /\ reqs'[r].refreshes = reqs[r].refreshes
           /\ reqs'[r].sessDels = reqs[r].sessDels
           /\ tasks'[t].pc \notin {"call", "clear", "login", "store"}
           /\ tasks[t].parent = 0 =>
                reqs'[r].status = "thr" \/ (reqs'[r].status = "ret" /\ reqs'[r].val.error)

\* C32: an upstream failure that is not one of session expiry (a network error,
\* an error response without a session pattern) leaves the stored Session as it
\* is and triggers no login and no retry: the call ends in the step in which
\* the failure arrives.
C32_OtherFailuresLeaveSession == [][C32_Step]_vars

\* a request that resolved the stored Session, met a failure other than expiry
\* and failed, the Session still stored
C32_Witness ==
    /\ SessionStored /\ store[sessionCacheKey].session = 1
    /\ \E r \in Requests :
        /\ reqs[r].session = NoTok /\ reqs[r].sessGets = 1
        /\ reqs[r].otherFails = 1 /\ reqs[r].calls = 1
        /\ reqs[r].logins = 0 /\ reqs[r].refreshes = 0
        /\ reqs[r].status = "thr" /\ reqs[r].err.tag = "apiRequestFailed"

C37_FailedLoginStep ==
    \A r \in Requests :
        reqs'[r].loginFails = reqs[r].loginFails + 1 => store' = store

\* C37: the stored Session is absent or holds a non-empty token that a
\* successful login returned; a failed login writes nothing.
C37_StoredSessionFromLogin ==
    /\ [](SessionStored =>
            /\ store[sessionCacheKey].session /= NoTok
            /\ store[sessionCacheKey].session \in 1..issued)
    /\ [][C37_FailedLoginStep]_vars

\* the Session was stored, cleared on expiry, and the login that followed
\* failed: no Session is stored
C37_Witness ==
    /\ ~SessionStored /\ issued = 1
    /\ \E r \in Requests :
        /\ reqs[r].logins = 2 /\ reqs[r].loginFails = 1 /\ reqs[r].sessSets = 1
        /\ reqs[r].refreshes = 1 /\ reqs[r].status = "thr"

\* task t, which had read the Session as missing, hears from its login
LoginAnswered(t) ==
    /\ Alive(tasks, t) /\ tasks[t].pc = "login"
    /\ ~Alive(tasks', t) \/ tasks'[t].pc /= "login"

C31_Step ==
    \A t \in TaskIds :
        LoginAnswered(t) =>
            /\ reqs'[tasks[t].rid].logins = reqs[tasks[t].rid].logins + 1
            /\ store' = store

\* C31: nothing guards the sequence of reading the Session, logging in and
\* storing it: a request that read the Session as missing calls login whatever
\* another request has stored in the meantime, so two requests in flight that
\* both read it as missing each log in.
C31_LoginAfterMissingRead == [][C31_Step]_vars

\* two requests in flight, neither with a token of its own: each read the
\* Session once, found none and logged in; no Session was ever cleared
C31_Witness ==
    /\ Len(reqs) = 2 /\ issued = 2
    /\ \A r \in Requests :
        /\ reqs[r].session = NoTok /\ reqs[r].sessGets = 1
        /\ reqs[r].logins = 1 /\ reqs[r].loginFails = 0
        /\ reqs[r].refreshes = 0 /\ reqs[r].sessDels = 0
        /\ reqs[r].status = "run"

\* C36: once every request in flight has finished, the stored Session holds the
\* token of the most recent successful login (tokens are numbered in the order
\* upstream issues them); stated for requests that all returned and whose
\* logins all succeeded.
C36_StoredSessionIsLatestLogin ==
    (/\ issued > 0
     /\ \A r \in Requests : reqs[r].status = "ret" /\ reqs[r].loginFails = 0)
    => /\ SessionStored
       /\ store[sessionCacheKey].session = issued

\* C33: provided every upstream call and every cache access returns, every
\* request reaches DONE (it returns a value) or FAILED (it throws), however
\* often upstream fails or reports the session expired.
C33_EveryRequestEnds == (Requests /= {}) ~> (\A r \in Requests : Finished(r))

\* a request whose call was retried after a refresh, reported expiry again and failed
C33_Witness ==
    \E r \in Requests :
        /\ reqs[r].retryExpired /\ reqs[r].refreshes = 1 /\ reqs[r].calls = 2
        /\ reqs[r].status = "thr"

====
